---- MODULE Spec2Model ----
(***************************************************************************)
(* Model of the go-ceph client: the request signer (ceph/auth.go), the     *)
(* duplex upload PutObjRequest.Do, the download GetObjRequest.Do with its  *)
(* persistence GetObjRequest.save, and GenDownloadUrl (ceph/obj.go).       *)
(*                                                                         *)
(* The specifications of this module:                                      *)
(*   SpecSign     the pure function Signature applied to bounded requests  *)
(*   SpecPut      one call of PutObjRequest.Do: coordinator, reader task,  *)
(*                writer task and the peer                                 *)
(*   SpecTimed    SpecPut with the passing of time                         *)
(*   SpecFair     SpecPut with every goroutine scheduled fairly            *)
(*   SpecSave     one call of GetObjRequest.Do                             *)
(*   SpecUrl      one call of GenDownloadUrl                               *)
(*   SpecTwoSaves two calls of GetObjRequest.save with one destination     *)
(*   SpecDo, SpecSignPut, SpecPutUrl   unions of the above                 *)
(* Strings are TLA+ strings; byte order (sort.Strings) is computed on the  *)
(* ASCII codes of the names in the model's universe.                       *)
(***************************************************************************)
EXTENDS Integers, Sequences, FiniteSets, TLC

VARIABLES
    \* ---- signer (SpecSign)
    sgReq,        \* the *http.Request handed to Signature
    sgKey,        \* secretKey
    sgPc,         \* position inside Signature: "headers", "query", "done"
    sgCanonical,  \* the local variable canonical
    sgSig,        \* the value returned

    \* ---- upload (SpecPut)
    pcCo,         \* position of the calling goroutine in Do
    pcRd,         \* position of the reader goroutine
    pcWr,         \* position of the writer goroutine
    wg,           \* sync.WaitGroup counter
    stopped,      \* the int32 stop flag
    notifyErrC,   \* chan error, capacity 2
    respBufC,     \* chan *http.Response, capacity 1
    chansClosed,  \* the deferred close of the three channels has run
    connClosed,   \* the deferred conn.Close() has run
    fileClosed,   \* the deferred f.Close() has run
    timerDur,     \* duration the timer was last armed with
    timerAt,      \* clock value when the timer was last armed
    now,          \* seconds elapsed since the timer was created
    wroteAt,      \* clock value when the writer finished the trailing CRLF, -1 before
    inbound,      \* responses sent by the peer, not yet parsed by the reader
    peerSent,     \* every response the peer has sent (history)
    peerClosed,   \* the peer has closed its end of the connection
    earlyResp,    \* status of the first terminal response sent while the writer was still writing, 0 if none
    rdResp,       \* response parsed by the reader, not yet forwarded
    rdErr,        \* error the reader is about to report
    wrErr,        \* error the writer is about to report
    numChunks,    \* file size in 8 KiB chunks
    written,      \* chunks written so far
    genUrl,       \* r.genUrl
    resp,         \* the coordinator's resp variable (status, 0 for nil)
    poresp,       \* the PutObjResponse under construction
    lateOps,      \* socket or channel operations attempted by a task after Do returned
    param,        \* the *RequestParam handed to Do
    fileSize,     \* size of the local file in bytes
    fileOpened,   \* os.Open(r.filePath) has succeeded
    dials,        \* number of calls of net.DialTimeout
    header,       \* the header block in buf (Content-Length), <<>> before it is built
    enableProgress, \* r.enableProgress
    progress,     \* r.progress: <<>> when nothing was stored, <<v>> for the value v
    lastUpdateTime, \* the writer's lastUpdateTime: "zero" or "set"
    divisors,     \* every divisor the writer has divided by
    wire,         \* what the writer has written on the connection, in order
    coReceived,   \* statuses the coordinator has received from respBufC, in order
    errSent,      \* errors delivered to notifyErrC, in order, with their sender
    bodyRaced,    \* the reader used respReader while the coordinator read a body from it
    crashed,      \* a panic has left a goroutine unrecovered
    deadlines,    \* the deadline settings made on conn: which deadline, by which goroutine

    \* ---- download save (SpecSave)
    pcSv,         \* position inside save
    svBody,       \* bytes the source stream delivers before it ends
    svSrcFails,   \* the source stream ends with an error instead of EOF
    objSize,      \* r.objSize
    base64Md5,    \* r.base64Md5 ("" when not supplied)
    tmpFile,      \* the file <savePath>.download
    dstFile,      \* the file savePath
    dstBefore,    \* dstFile when save was called
    svWritten,    \* bytes copied so far
    svCopied,     \* io.Copy returned without error
    svSynced,     \* f.Sync returned without error
    saveErr,      \* error returned by save ("" for nil)
    svParam,      \* the *RequestParam handed to GetObjRequest.Do
    svHttp,       \* HTTP requests issued by the download, in order
    goErr,        \* goresp.err ("" for nil)
    svEnableProgress, \* r.enableProgress of the download
    svProgress,   \* r.progress of the download: <<>> when nothing was stored, <<v>> for v
    pcPoll,       \* position of the progress poller: "none", "select", "done", "panic"
    svPolls,      \* size polls (f.Stat) of the poller that succeeded

    \* ---- GenDownloadUrl (SpecUrl)
    gdPc,         \* position inside GenDownloadUrl
    gdBucket,     \* bucket
    gdObj,        \* objName
    gdParam,      \* p
    gdSigned,     \* signed
    gdExpired,    \* expired, in seconds
    gdNow,        \* time.Now().Unix() at the call
    gdUrl,        \* the URL returned, as the sequence of its parts
    gdErr,        \* the error returned ("" for nil)
    gdHead,       \* outcome of the object check: "" before it, "ok" or "failed"

    \* ---- two calls of save with the same savePath (SpecTwoSaves)
    ccPc,         \* position of each call inside save
    ccBody,       \* the body each call's GET response delivers
    ccMd5,        \* r.base64Md5 of each request (<<>> when not set)
    ccF,          \* the file each call's f refers to (0 before the open)
    ccWritten,    \* bytes each call has written, which is the offset of its f
    ccErr,        \* saveErr of each call ("" for nil)
    ccTmpPath,    \* the file the name savePath + ".download" refers to (0: none)
    ccSavePath,   \* the file the name savePath refers to (0: none)
    ccInodes      \* the content of each file

sgVars == <<sgReq, sgKey, sgPc, sgCanonical, sgSig>>

putVars == <<pcCo, pcRd, pcWr, wg, stopped, notifyErrC, respBufC, chansClosed,
             connClosed, fileClosed, timerDur, timerAt, now, wroteAt, inbound,
             peerSent, peerClosed, earlyResp, rdResp, rdErr, wrErr, numChunks,
             written, genUrl, resp, poresp, lateOps, param, fileSize,
             fileOpened, dials, header, enableProgress, progress,
             lastUpdateTime, divisors, wire, coReceived, errSent, bodyRaced,
             crashed, deadlines>>

svVars == <<pcSv, svBody, svSrcFails, objSize, base64Md5, tmpFile, dstFile,
            dstBefore, svWritten, svCopied, svSynced, saveErr, svParam, svHttp,
            goErr, svEnableProgress, svProgress, pcPoll, svPolls>>

gdVars == <<gdPc, gdBucket, gdObj, gdParam, gdSigned, gdExpired, gdNow, gdUrl,
            gdErr, gdHead>>

ccVars == <<ccPc, ccBody, ccMd5, ccF, ccWritten, ccErr, ccTmpPath, ccSavePath,
            ccInodes>>

vars == <<sgVars, putVars, svVars, gdVars, ccVars>>

(***************************************************************************)
(* Bounds of the model.                                                    *)
(***************************************************************************)
MaxQuery == 3
MaxChunks == 2
MaxResponses == 2
MaxClock == 6
MaxSize == 2
MaxPolls == 2

(***************************************************************************)
(* ceph/auth.go: the signer.                                               *)
(***************************************************************************)

\* The allow-list built by init().
QsaOfInterest ==
    {"acl", "cors", "defaultObjectAcl", "location", "logging", "partNumber",
     "policy", "requestPayment", "torrent", "versioning", "versions",
     "website", "uploads", "uploadId", "response-content-type",
     "response-content-language", "response-expires",
     "response-cache-control", "response-content-disposition",
     "response-content-encoding", "delete", "lifecycle", "tagging",
     "restore", "storageClass", "websiteConfig", "compose"}

\* Header keys a request of the model may carry (http.Header is a map, so
\* keys differing only in case are distinct keys).
HeaderKeys == {"Date", "date", "Content-Md5", "Content-Type", "Expires"}

\* strings.ToLower on the header keys of the model.
ToLower(k) ==
    CASE k = "Date" -> "date"
      [] k = "date" -> "date"
      [] k = "Content-Md5" -> "content-md5"
      [] k = "Content-Type" -> "content-type"
      [] k = "Expires" -> "expires"

\* The ASCII bytes of the names sort.Strings compares.
Bytes(s) ==
    CASE s = "date" -> <<100, 97, 116, 101>>
      [] s = "content-md5" -> <<99, 111, 110, 116, 101, 110, 116, 45, 109, 100, 53>>
      [] s = "content-type" -> <<99, 111, 110, 116, 101, 110, 116, 45, 116, 121, 112, 101>>
      [] s = "acl" -> <<97, 99, 108>>
      [] s = "uploadId" -> <<117, 112, 108, 111, 97, 100, 73, 100>>
      [] s = "foo" -> <<102, 111, 111>>

RECURSIVE BytesLess(_, _)
BytesLess(a, b) ==
    IF b = <<>> THEN FALSE
    ELSE IF a = <<>> THEN TRUE
    ELSE IF Head(a) # Head(b) THEN Head(a) < Head(b)
    ELSE BytesLess(Tail(a), Tail(b))

\* Go's < on strings: byte-wise lexicographic.
StringLess(a, b) == BytesLess(Bytes(a), Bytes(b))

RECURSIVE InsertSorted(_, _)
InsertSorted(s, x) ==
    IF s = <<>> THEN <<x>>
    ELSE IF StringLess(x, Head(s)) THEN <<x>> \o s
    ELSE <<Head(s)>> \o InsertSorted(Tail(s), x)

\* sort.Strings: ascending byte order, duplicates kept.
RECURSIVE SortStrings(_)
SortStrings(s) ==
    IF s = <<>> THEN <<>>
    ELSE InsertSorted(SortStrings(SubSeq(s, 1, Len(s) - 1)), s[Len(s)])

\* strings.Join.
RECURSIVE Join(_, _)
Join(s, sep) ==
    IF s = <<>> THEN ""
    ELSE IF Len(s) = 1 THEN s[1]
    ELSE s[1] \o sep \o Join(Tail(s), sep)

\* Every order in which `range` may enumerate the keys of a map.
RECURSIVE Perms(_)
Perms(S) ==
    IF S = {} THEN {<<>>}
    ELSE UNION {{<<x>> \o p : p \in Perms(S \ {x})} : x \in S}

\* The first loop of Signature: enumerate r.Header in the order `order`,
\* keep the three signed headers under their lower-case name.
RECURSIVE ScanHeaders(_, _, _)
ScanHeaders(hdr, order, acc) ==
    IF order = <<>> THEN acc
    ELSE LET k == Head(order)
             lowerKey == ToLower(k)
         IN IF lowerKey \in {"date", "content-type", "content-md5"}
            THEN ScanHeaders(hdr, Tail(order),
                     [h |-> (lowerKey :> Join(hdr[k], " ")) @@ acc.h,
                      sortedKeys |-> Append(acc.sortedKeys, lowerKey)])
            ELSE ScanHeaders(hdr, Tail(order), acc)

\* Mutant of FillMissing: the missing name gets no line of its own.
FillMissing_NoLine(acc, name) ==
    IF name \in DOMAIN acc.h THEN acc
    ELSE [h |-> (name :> "") @@ acc.h, sortedKeys |-> acc.sortedKeys]

\* One of the three `if _, ok := h[name]; !ok` blocks.
FillMissing(acc, name) ==
    IF name \in DOMAIN acc.h THEN acc
    ELSE [h |-> (name :> "") @@ acc.h,
          sortedKeys |-> Append(acc.sortedKeys, name)]

RECURSIVE HeaderLines(_, _)
HeaderLines(h, keys) ==
    IF keys = <<>> THEN ""
    ELSE h[Head(keys)] \o "\n" \o HeaderLines(h, Tail(keys))

\* canonical after the header loop: METHOD, newline, one line per sorted key.
CanonicalHeaders(r, hdrOrder) ==
    LET scanned == ScanHeaders(r.Header, hdrOrder, [h |-> <<>>, sortedKeys |-> <<>>])
        filled == FillMissing(FillMissing(FillMissing(scanned, "date"),
                                          "content-md5"), "content-type")
    IN r.Method \o "\n" \o HeaderLines(filled.h, SortStrings(filled.sortedKeys))

\* url.Query(): every entry of the raw query, with or without '=', appends
\* its value (the empty string for a bare name) to the values of its name.
RECURSIVE ParseQuery(_, _)
ParseQuery(raw, m) ==
    IF raw = <<>> THEN m
    ELSE LET e == Head(raw)
             old == IF e.name \in DOMAIN m THEN m[e.name] ELSE <<>>
         IN ParseQuery(Tail(raw), (e.name :> Append(old, e.value)) @@ m)

Query(r) == ParseQuery(r.RawQuery, <<>>)

\* The loop that keeps the allow-listed names, in enumeration order.
RECURSIVE FilterQuery(_)
FilterQuery(order) ==
    IF order = <<>> THEN <<>>
    ELSE IF Head(order) \in QsaOfInterest
         THEN <<Head(order)>> \o FilterQuery(Tail(order))
         ELSE FilterQuery(Tail(order))

RECURSIVE NameValues(_, _)
NameValues(k, vals) ==
    IF vals = <<>> THEN <<>>
    ELSE <<k \o "=" \o Head(vals)>> \o NameValues(k, Tail(vals))

\* The loop over sortedQuery that builds newQuerySlice.
RECURSIVE QueryEntries(_, _)
QueryEntries(query, sortedQuery) ==
    IF sortedQuery = <<>> THEN <<>>
    ELSE LET k == Head(sortedQuery)
             queryVal == query[k]
         IN (IF Len(queryVal) <= 0 THEN <<k>> ELSE NameValues(k, queryVal))
            \o QueryEntries(query, Tail(sortedQuery))

NewQuerySlice(r, qryOrder) ==
    QueryEntries(Query(r), SortStrings(FilterQuery(qryOrder)))

\* The whole string handed to Hashmac.
CanonicalString(r, hdrOrder, qryOrder) ==
    LET newQuerySlice == NewQuerySlice(r, qryOrder)
    IN CanonicalHeaders(r, hdrOrder) \o r.Path
       \o (IF Len(newQuerySlice) > 0 THEN "?" \o Join(newQuerySlice, "&") ELSE "")

\* HMAC-SHA1 and base64 are modelled as injective constructors.
Hashmac(msg, key) == <<"hmac-sha1", key, msg>>

Base64Encode(b) == <<"base64", b>>

Signature(secretKey, r, hdrOrder, qryOrder) ==
    Base64Encode(Hashmac(CanonicalString(r, hdrOrder, qryOrder), secretKey))

(***************************************************************************)
(* The requests SpecSign signs.                                            *)
(***************************************************************************)
HeaderValue(k) ==
    CASE k = "Date" -> <<"d1">>
      [] k = "date" -> <<"d2">>
      [] k = "Content-Md5" -> <<"m">>
      [] k = "Content-Type" -> <<"t", "u">>
      [] k = "Expires" -> <<"e">>

HeaderMaps == {[k \in S |-> HeaderValue(k)] : S \in SUBSET HeaderKeys}

\* One parameter of a raw query: name, or name=value.
QueryParams ==
    {[name |-> "acl", eq |-> FALSE, value |-> ""],
     [name |-> "uploadId", eq |-> TRUE, value |-> "7"],
     [name |-> "uploadId", eq |-> TRUE, value |-> "8"],
     [name |-> "foo", eq |-> TRUE, value |-> "1"]}

RawQueries == UNION {[1..n -> QueryParams] : n \in 0..MaxQuery}

Requests ==
    [Method : {"GET", "PUT"}, Header : HeaderMaps, Path : {"/b/o"},
     RawQuery : RawQueries]

SgIdle ==
    /\ sgReq = [Method |-> "GET", Header |-> <<>>, Path |-> "/b/o", RawQuery |-> <<>>]
    /\ sgKey = "secret"
    /\ sgPc = "idle"
    /\ sgCanonical = ""
    /\ sgSig = <<>>

SgInit ==
    /\ sgReq \in Requests
    /\ sgKey = "secret"
    /\ sgPc = "headers"
    /\ sgCanonical = ""
    /\ sgSig = <<>>

\* Signature, first half: the header loop in some enumeration order of
\* r.Header, the three fill-ins, the sort and the header lines.
SignHeaders ==
    /\ sgPc = "headers"
    /\ \E hdrOrder \in Perms(DOMAIN sgReq.Header) :
          sgCanonical' = CanonicalHeaders(sgReq, hdrOrder)
    /\ sgPc' = "query"
    /\ UNCHANGED <<sgReq, sgKey, sgSig>>
    /\ UNCHANGED <<putVars, svVars, gdVars, ccVars>>

\* Signature, second half: the query loop in some enumeration order of
\* url.Query(), the path, the '?' part, Hashmac and base64.
SignQuery ==
    /\ sgPc = "query"
    /\ \E qryOrder \in Perms(DOMAIN Query(sgReq)) :
          LET newQuerySlice == NewQuerySlice(sgReq, qryOrder)
              canonical == sgCanonical \o sgReq.Path
                  \o (IF Len(newQuerySlice) > 0
                      THEN "?" \o Join(newQuerySlice, "&") ELSE "")
          IN /\ sgCanonical' = canonical
             /\ sgSig' = Base64Encode(Hashmac(canonical, sgKey))
    /\ sgPc' = "done"
    /\ UNCHANGED <<sgReq, sgKey>>
    /\ UNCHANGED <<putVars, svVars, gdVars, ccVars>>

SignNext == SignHeaders \/ SignQuery

(***************************************************************************)
(* ceph/obj.go: PutObjRequest.Do.                                          *)
(***************************************************************************)
\* Durations are hours plus seconds (100 years of seconds exceed 32 bits).
FinalWait == 5
HundredYears == [h |-> 100 * 365 * 24, s |-> 0]
FinalWaitDur == [h |-> 0, s |-> FinalWait]

\* The timer armed with duration d has fired after `elapsed` seconds.
TimerFired(elapsed, d) ==
    \/ elapsed \div 3600 > d.h
    \/ elapsed \div 3600 = d.h /\ elapsed % 3600 >= d.s
ErrCap == 2
RespCap == 1

\* chunk := make([]byte, 8192)
ChunkSize == 8192

Statuses == {100, 200, 403}

NoResult == [err |-> "", ETag |-> "", Base64Md5 |-> "", DownloadUrl |-> ""]

\* A nil *RequestParam, and the parameter bundles a caller may pass.
NilParam == [nil |-> TRUE, Host |-> "", AccessKey |-> "", SecretKey |-> ""]

Params ==
    {NilParam} \cup [nil : {FALSE}, Host : {"ceph:7480", "nowhere"},
                     AccessKey : {"", "ak"}, SecretKey : {"", "sk"}]

\* net.ResolveTCPAddr("tcp", host) succeeds.
ResolveTCPAddr(host) == host = "ceph:7480"

\* Mutant of Validate: the SecretKey test is dropped.
Validate_NoSecretKey(p) ==
    IF ~ResolveTCPAddr(p.Host) THEN "Invalid host"
    ELSE IF Len(p.AccessKey) <= 0 THEN "Empty AccessKey"
    ELSE ""

\* RequestParam.Validate: the error message, "" for nil.
Validate(p) ==
    IF ~ResolveTCPAddr(p.Host) THEN "Invalid host"
    ELSE IF Len(p.AccessKey) <= 0 THEN "Empty AccessKey"
    ELSE IF Len(p.SecretKey) <= 0 THEN "Empty SecretKey"
    ELSE ""

\* Sizes of the local file: empty, or ending in a partial or a full chunk.
FileSizes ==
    {0} \cup UNION {{(n - 1) * ChunkSize + 1, n * ChunkSize} : n \in 1..MaxChunks}

\* Mutant of ChunksOf: the partial chunk at the end of the file is not read.
ChunksOf_Floor(size) == size \div ChunkSize

\* Number of f.Read calls that return data.
ChunksOf(size) == (size + ChunkSize - 1) \div ChunkSize

\* writeCount after w chunks have been written.
WriteCount(w) == IF w * ChunkSize < fileSize THEN w * ChunkSize ELSE fileSize

PutIdle ==
    /\ pcCo = "idle" /\ pcRd = "none" /\ pcWr = "none"
    /\ wg = 0 /\ stopped = 0
    /\ notifyErrC = <<>> /\ respBufC = <<>>
    /\ chansClosed = FALSE /\ connClosed = FALSE /\ fileClosed = FALSE
    /\ timerDur = HundredYears /\ timerAt = 0 /\ now = 0 /\ wroteAt = -1
    /\ inbound = <<>> /\ peerSent = <<>> /\ peerClosed = FALSE /\ earlyResp = 0
    /\ rdResp = 0 /\ rdErr = "" /\ wrErr = ""
    /\ numChunks = 0 /\ written = 0 /\ genUrl = FALSE
    /\ resp = 0 /\ poresp = NoResult /\ lateOps = {}
    /\ param = NilParam /\ fileSize = 0 /\ fileOpened = FALSE /\ dials = 0
    /\ header = <<>> /\ enableProgress = FALSE /\ progress = <<>>
    /\ lastUpdateTime = "zero" /\ divisors = {} /\ wire = <<>>
    /\ coReceived = <<>> /\ errSent = <<>> /\ bodyRaced = FALSE
    /\ crashed = FALSE /\ deadlines = {}

\* The request as constructed (NewPutObjRequest, EnableGenDownloadUrl,
\* SetEnableProgress) and the arguments of Do.
PutInit ==
    /\ pcCo = "validate" /\ pcRd = "none" /\ pcWr = "none"
    /\ wg = 0 /\ stopped = 0
    /\ notifyErrC = <<>> /\ respBufC = <<>>
    /\ chansClosed = FALSE /\ connClosed = FALSE /\ fileClosed = FALSE
    /\ timerDur = HundredYears /\ timerAt = 0 /\ now = 0 /\ wroteAt = -1
    /\ inbound = <<>> /\ peerSent = <<>> /\ peerClosed = FALSE /\ earlyResp = 0
    /\ rdResp = 0 /\ rdErr = "" /\ wrErr = ""
    /\ fileSize \in FileSizes /\ numChunks = ChunksOf(fileSize)
    /\ written = 0 /\ genUrl \in BOOLEAN
    /\ resp = 0 /\ poresp = NoResult /\ lateOps = {}
    /\ param \in Params /\ fileOpened = FALSE /\ dials = 0
    /\ header = <<>> /\ enableProgress \in BOOLEAN
    /\ progress = IF enableProgress THEN <<0>> ELSE <<>>
    /\ lastUpdateTime = "zero" /\ divisors = {} /\ wire = <<>>
    /\ coReceived = <<>> /\ errSent = <<>> /\ bodyRaced = FALSE
    /\ crashed = FALSE /\ deadlines = {}

\* GMTime() at the call, the Content-Type of an upload and the digest
\* Base64MD5(f) of the local file.
GMTime == "Thu, 05 Nov 2026 10:00:00 GMT"

ContentType == "binary/octet-stream"

FileMd5 == "md5"

\* req after http.NewRequest("PUT", url, nil) and the three req.Header.Set
\* calls (Set stores the canonical key, Content-Md5).
PutRequest(date, md5) ==
    [Method |-> "PUT",
     Header |-> ("Date" :> <<date>>) @@ ("Content-Type" :> <<ContentType>>)
                @@ ("Content-Md5" :> <<md5>>),
     Path |-> "/bucket/obj", RawQuery |-> <<>>]

\* req.Header.Get(key): the first value under the canonical key.
HeaderGet(req, key) ==
    IF key \in DOMAIN req.Header /\ req.Header[key] # <<>>
    THEN req.Header[key][1] ELSE ""

\* The header block written into buf: the lines that vary, by name.
HeaderBlock(req, p, sign) ==
    [kind |-> "header", n |-> fileSize,
     ContentType |-> HeaderGet(req, "Content-Type"),
     ContentMD5 |-> HeaderGet(req, "Content-Md5"),
     Date |-> HeaderGet(req, "Date"),
     Authorization |-> <<"AWS", p.AccessKey, sign>>]

\* defer func() { recover(); w.Done() }(): what is left of a panic raised in
\* the task once the deferred function has run.
AfterRecover_NoRecover(panicking) == panicking

AfterRecover(panicking) == FALSE

TaskExited(pc) == pc \in {"none", "done"}

\* A socket or channel operation by a task once Do has returned.
Late(op) == IF pcCo = "done" THEN lateOps \cup {op} ELSE lateOps

\* if p == nil { ... }; if err := p.Validate(); err != nil { ... }
CoValidate ==
    /\ pcCo = "validate"
    /\ IF param.nil
       THEN pcCo' = "done" /\ poresp' = [poresp EXCEPT !.err = "Nil RequestParam"]
       ELSE IF Validate(param) # ""
       THEN /\ pcCo' = "done"
            /\ poresp' = [poresp EXCEPT
                            !.err = "Validate RequestParam err, " \o Validate(param)]
       ELSE pcCo' = "open" /\ UNCHANGED poresp
    /\ UNCHANGED <<pcRd, pcWr, wg, stopped, notifyErrC, respBufC,
                   chansClosed, connClosed, fileClosed, timerDur, timerAt,
                   now, wroteAt, inbound, peerSent, peerClosed, earlyResp,
                   rdResp, rdErr, wrErr, numChunks, written, genUrl, resp,
                   lateOps, param, fileSize, fileOpened, dials, header,
                   enableProgress, progress, lastUpdateTime, divisors, wire,
                   coReceived, errSent, bodyRaced, crashed, deadlines>>
    /\ UNCHANGED <<sgVars, svVars, gdVars, ccVars>>

\* os.Open(r.filePath), defer f.Close(), f.Stat()
CoOpen ==
    /\ pcCo = "open"
    /\ \E ok \in BOOLEAN :
         IF ok THEN pcCo' = "md5" /\ fileOpened' = TRUE /\ UNCHANGED poresp
         ELSE /\ pcCo' = "done" /\ poresp' = [poresp EXCEPT !.err = "Open err"]
              /\ UNCHANGED fileOpened
    /\ UNCHANGED <<pcRd, pcWr, wg, stopped, notifyErrC, respBufC,
                   chansClosed, connClosed, fileClosed, timerDur, timerAt,
                   now, wroteAt, inbound, peerSent, peerClosed, earlyResp,
                   rdResp, rdErr, wrErr, numChunks, written, genUrl, resp,
                   lateOps, param, fileSize, dials, header, enableProgress,
                   progress, lastUpdateTime, divisors, wire, coReceived,
                   errSent, bodyRaced, crashed, deadlines>>
    /\ UNCHANGED <<sgVars, svVars, gdVars, ccVars>>

\* Base64MD5(f); a return from here on runs the deferred f.Close()
CoMd5 ==
    /\ pcCo = "md5"
    /\ \E ok \in BOOLEAN :
         IF ok THEN pcCo' = "header" /\ UNCHANGED <<poresp, fileClosed>>
         ELSE /\ pcCo' = "done" /\ poresp' = [poresp EXCEPT !.err = "Cal md5 err"]
              /\ fileClosed' = TRUE
    /\ UNCHANGED <<pcRd, pcWr, wg, stopped, notifyErrC, respBufC,
                   chansClosed, connClosed, timerDur, timerAt, now, wroteAt,
                   inbound, peerSent, peerClosed, earlyResp, rdResp, rdErr,
                   wrErr, numChunks, written, genUrl, resp, lateOps, param,
                   fileSize, fileOpened, dials, header, enableProgress,
                   progress, lastUpdateTime, divisors, wire, coReceived,
                   errSent, bodyRaced, crashed, deadlines>>
    /\ UNCHANGED <<sgVars, svVars, gdVars, ccVars>>

\* Mutant of CoHeader: the Date line is taken from a second call of GMTime().
CoHeader_DateAfterSign ==
    /\ pcCo = "header"
    /\ \E ok \in BOOLEAN :
         IF ok
         THEN /\ pcCo' = "dial"
              /\ \E hdrOrder \in Perms({"Date", "Content-Type", "Content-Md5"}) :
                   LET req == PutRequest(GMTime, FileMd5)
                       sign == Signature(param.SecretKey, req, hdrOrder, <<>>)
                   IN header' = <<HeaderBlock(PutRequest("Thu, 05 Nov 2026 10:00:01 GMT", FileMd5), param, sign)>>
              /\ UNCHANGED <<poresp, fileClosed>>
         ELSE /\ pcCo' = "done"
              /\ poresp' = [poresp EXCEPT !.err = "New http request err"]
              /\ fileClosed' = TRUE
              /\ UNCHANGED header
    /\ UNCHANGED <<pcRd, pcWr, wg, stopped, notifyErrC, respBufC,
                   chansClosed, connClosed, timerDur, timerAt, now, wroteAt,
                   inbound, peerSent, peerClosed, earlyResp, rdResp, rdErr,
                   wrErr, numChunks, written, genUrl, resp, lateOps, param,
                   fileSize, fileOpened, dials, enableProgress, progress,
                   lastUpdateTime, divisors, wire, coReceived, errSent,
                   bodyRaced, crashed, deadlines>>
    /\ UNCHANGED <<sgVars, svVars, gdVars, ccVars>>

\* http.NewRequest, the three headers, Signature (which enumerates req.Header
\* in some order) and the header block in buf
CoHeader ==
    /\ pcCo = "header"
    /\ \E ok \in BOOLEAN :
         IF ok
         THEN /\ pcCo' = "dial"
              /\ \E hdrOrder \in Perms({"Date", "Content-Type", "Content-Md5"}) :
                   LET req == PutRequest(GMTime, FileMd5)
                       sign == Signature(param.SecretKey, req, hdrOrder, <<>>)
                   IN header' = <<HeaderBlock(req, param, sign)>>
              /\ UNCHANGED <<poresp, fileClosed>>
         ELSE /\ pcCo' = "done"
              /\ poresp' = [poresp EXCEPT !.err = "New http request err"]
              /\ fileClosed' = TRUE
              /\ UNCHANGED header
    /\ UNCHANGED <<pcRd, pcWr, wg, stopped, notifyErrC, respBufC,
                   chansClosed, connClosed, timerDur, timerAt, now, wroteAt,
                   inbound, peerSent, peerClosed, earlyResp, rdResp, rdErr,
                   wrErr, numChunks, written, genUrl, resp, lateOps, param,
                   fileSize, fileOpened, dials, enableProgress, progress,
                   lastUpdateTime, divisors, wire, coReceived, errSent,
                   bodyRaced, crashed, deadlines>>
    /\ UNCHANGED <<sgVars, svVars, gdVars, ccVars>>

\* net.DialTimeout, defer conn.Close(), the channels, the two go statements
\* and time.NewTimer.
CoDial ==
    /\ pcCo = "dial"
    /\ dials' = dials + 1
    /\ \E ok \in BOOLEAN :
         IF ok
         THEN /\ pcCo' = "select" /\ pcRd' = "start" /\ pcWr' = "start"
              /\ UNCHANGED <<poresp, fileClosed>>
         ELSE /\ pcCo' = "done" /\ poresp' = [poresp EXCEPT !.err = "Dial err"]
              /\ fileClosed' = TRUE
              /\ UNCHANGED <<pcRd, pcWr>>
    /\ UNCHANGED <<wg, stopped, notifyErrC, respBufC, chansClosed,
                   connClosed, timerDur, timerAt, now, wroteAt, inbound,
                   peerSent, peerClosed, earlyResp, rdResp, rdErr, wrErr,
                   numChunks, written, genUrl, resp, lateOps, param,
                   fileSize, fileOpened, header, enableProgress, progress,
                   lastUpdateTime, divisors, wire, coReceived, errSent,
                   bodyRaced, crashed, deadlines>>
    /\ UNCHANGED <<sgVars, svVars, gdVars, ccVars>>

\* Goroutines blocked in a send on writeDoneC: the program has no such send.
WriteDoneSenders == {}

\* The cases of the select that can proceed.
ReadyCases ==
    (IF notifyErrC # <<>> THEN {"notifyErrC"} ELSE {})
    \cup (IF WriteDoneSenders # {} THEN {"writeDoneC"} ELSE {})
    \cup (IF TimerFired(now - timerAt, timerDur) THEN {"timeout"} ELSE {})
    \cup (IF respBufC # <<>> THEN {"respBufC"} ELSE {})

\* Mutant of CoSelect: a response with status < 200 also ends the loop.
CoSelect_ProvisionalEnds ==
    /\ pcCo = "select"
    /\ \E c \in ReadyCases :
         IF c = "notifyErrC"
         THEN /\ poresp' = [poresp EXCEPT !.err = Head(notifyErrC)]
              /\ notifyErrC' = Tail(notifyErrC)
              /\ pcCo' = "stop"
              /\ UNCHANGED <<respBufC, resp, timerDur, timerAt, coReceived>>
         ELSE IF c = "writeDoneC"
         THEN /\ timerDur' = FinalWaitDur /\ timerAt' = now
              /\ UNCHANGED <<poresp, notifyErrC, respBufC, resp, pcCo, coReceived>>
         ELSE IF c = "timeout"
         THEN /\ poresp' = [poresp EXCEPT !.err = "Read response timeout"]
              /\ pcCo' = "stop"
              /\ UNCHANGED <<notifyErrC, respBufC, resp, timerDur, timerAt, coReceived>>
         ELSE /\ resp' = Head(respBufC)
              /\ respBufC' = Tail(respBufC)
              /\ coReceived' = Append(coReceived, Head(respBufC))
              /\ pcCo' = "readBody"
              /\ UNCHANGED <<poresp, notifyErrC, timerDur, timerAt>>
    /\ UNCHANGED <<pcRd, pcWr, wg, stopped, chansClosed, connClosed,
                   fileClosed, now, wroteAt, inbound, peerSent, peerClosed,
                   earlyResp, rdResp, rdErr, wrErr, numChunks, written,
                   genUrl, lateOps, param, fileSize, fileOpened, dials,
                   header, enableProgress, progress, lastUpdateTime,
                   divisors, wire, errSent, bodyRaced, crashed, deadlines>>
    /\ UNCHANGED <<sgVars, svVars, gdVars, ccVars>>

\* Mutant of CoSelect: an error from a task does not end the loop.
CoSelect_ErrorRetried ==
    /\ pcCo = "select"
    /\ \E c \in ReadyCases :
         IF c = "notifyErrC"
         THEN /\ poresp' = [poresp EXCEPT !.err = Head(notifyErrC)]
              /\ notifyErrC' = Tail(notifyErrC)
              /\ pcCo' = "select"
              /\ UNCHANGED <<respBufC, resp, timerDur, timerAt, coReceived>>
         ELSE IF c = "writeDoneC"
         THEN /\ timerDur' = FinalWaitDur /\ timerAt' = now
              /\ UNCHANGED <<poresp, notifyErrC, respBufC, resp, pcCo, coReceived>>
         ELSE IF c = "timeout"
         THEN /\ poresp' = [poresp EXCEPT !.err = "Read response timeout"]
              /\ pcCo' = "stop"
              /\ UNCHANGED <<notifyErrC, respBufC, resp, timerDur, timerAt, coReceived>>
         ELSE /\ resp' = Head(respBufC)
              /\ respBufC' = Tail(respBufC)
              /\ coReceived' = Append(coReceived, Head(respBufC))
              /\ pcCo' = IF Head(respBufC) < 200 THEN "select" ELSE "readBody"
              /\ UNCHANGED <<poresp, notifyErrC, timerDur, timerAt>>
    /\ UNCHANGED <<pcRd, pcWr, wg, stopped, chansClosed, connClosed,
                   fileClosed, now, wroteAt, inbound, peerSent, peerClosed,
                   earlyResp, rdResp, rdErr, wrErr, numChunks, written,
                   genUrl, lateOps, param, fileSize, fileOpened, dials,
                   header, enableProgress, progress, lastUpdateTime,
                   divisors, wire, errSent, bodyRaced, crashed, deadlines>>
    /\ UNCHANGED <<sgVars, svVars, gdVars, ccVars>>

\* One iteration of `for loop { select { ... } }`; select takes any ready
\* case.  A response with status >= 200 sets loop = false and goes on to
\* ioutil.ReadAll(resp.Body).
CoSelect ==
    /\ pcCo = "select"
    /\ \E c \in ReadyCases :
         IF c = "notifyErrC"
         THEN /\ poresp' = [poresp EXCEPT !.err = Head(notifyErrC)]
              /\ notifyErrC' = Tail(notifyErrC)
              /\ pcCo' = "stop"
              /\ UNCHANGED <<respBufC, resp, timerDur, timerAt, coReceived>>
         ELSE IF c = "writeDoneC"
         THEN /\ timerDur' = FinalWaitDur /\ timerAt' = now
              /\ UNCHANGED <<poresp, notifyErrC, respBufC, resp, pcCo, coReceived>>
         ELSE IF c = "timeout"
         THEN /\ poresp' = [poresp EXCEPT !.err = "Read response timeout"]
              /\ pcCo' = "stop"
              /\ UNCHANGED <<notifyErrC, respBufC, resp, timerDur, timerAt, coReceived>>
         ELSE /\ resp' = Head(respBufC)
              /\ respBufC' = Tail(respBufC)
              /\ coReceived' = Append(coReceived, Head(respBufC))
              /\ pcCo' = IF Head(respBufC) < 200 THEN "select" ELSE "readBody"
              /\ UNCHANGED <<poresp, notifyErrC, timerDur, timerAt>>
    /\ UNCHANGED <<pcRd, pcWr, wg, stopped, chansClosed, connClosed,
                   fileClosed, now, wroteAt, inbound, peerSent, peerClosed,
                   earlyResp, rdResp, rdErr, wrErr, numChunks, written,
                   genUrl, lateOps, param, fileSize, fileOpened, dials,
                   header, enableProgress, progress, lastUpdateTime,
                   divisors, wire, errSent, bodyRaced, crashed, deadlines>>
    /\ UNCHANGED <<sgVars, svVars, gdVars, ccVars>>

\* Outcomes of ioutil.ReadAll(resp.Body).  The body reads from the reader
\* task's bufio.Reader; when that task is inside http.ReadResponse at the
\* same time the two goroutines race on the buffer and the bytes returned
\* need not be the body.
BodyOutcomes ==
    IF bodyRaced \/ (pcRd = "read" /\ ~connClosed)
    THEN {"intact", "error", "garbled"}
    ELSE {"intact", "error"}

\* Mutant of TerminalResponse: ETag and checksum are stored before the URL
\* is generated.
TerminalResponse_TagBeforeUrl(status) ==
    \E body \in BodyOutcomes, urlOK \in BOOLEAN :
       poresp' =
          IF body = "error" THEN [poresp EXCEPT !.err = "Read response body err"]
          ELSE IF status # 200
               THEN [poresp EXCEPT !.err = IF body = "intact" THEN "response body"
                                           ELSE "garbled response body"]
          ELSE IF genUrl /\ ~urlOK
               THEN [poresp EXCEPT !.err = "Generate download url failed",
                                   !.ETag = "etag", !.Base64Md5 = "md5"]
          ELSE [poresp EXCEPT !.DownloadUrl = IF genUrl THEN "url" ELSE "",
                              !.ETag = "etag", !.Base64Md5 = "md5"]

\* The rest of case resp = <-respBufC for resp.StatusCode >= 200.
TerminalResponse(status) ==
    \E body \in BodyOutcomes, urlOK \in BOOLEAN :
       poresp' =
          IF body = "error" THEN [poresp EXCEPT !.err = "Read response body err"]
          ELSE IF status # 200
               THEN [poresp EXCEPT !.err = IF body = "intact" THEN "response body"
                                           ELSE "garbled response body"]
          ELSE IF genUrl /\ ~urlOK
               THEN [poresp EXCEPT !.err = "Generate download url failed"]
          ELSE [poresp EXCEPT !.DownloadUrl = IF genUrl THEN "url" ELSE "",
                              !.ETag = "etag", !.Base64Md5 = "md5"]

\* ioutil.ReadAll(resp.Body) and the evaluation of the terminal response.
CoReadBody ==
    /\ pcCo = "readBody"
    /\ TerminalResponse(resp)
    /\ pcCo' = "stop"
    /\ UNCHANGED <<pcRd, pcWr, wg, stopped, notifyErrC, respBufC,
                   chansClosed, connClosed, fileClosed, timerDur, timerAt,
                   now, wroteAt, inbound, peerSent, peerClosed, earlyResp,
                   rdResp, rdErr, wrErr, numChunks, written, genUrl, resp,
                   lateOps, param, fileSize, fileOpened, dials, header,
                   enableProgress, progress, lastUpdateTime, divisors, wire,
                   coReceived, errSent, bodyRaced, crashed, deadlines>>
    /\ UNCHANGED <<sgVars, svVars, gdVars, ccVars>>

\* atomic.AddInt32(&stopped, 1)
CoStop ==
    /\ pcCo = "stop"
    /\ stopped' = stopped + 1
    /\ pcCo' = "wait"
    /\ UNCHANGED <<pcRd, pcWr, wg, notifyErrC, respBufC, chansClosed,
                   connClosed, fileClosed, timerDur, timerAt, now, wroteAt,
                   inbound, peerSent, peerClosed, earlyResp, rdResp, rdErr,
                   wrErr, numChunks, written, genUrl, resp, poresp, lateOps,
                   param, fileSize, fileOpened, dials, header,
                   enableProgress, progress, lastUpdateTime, divisors, wire,
                   coReceived, errSent, bodyRaced, crashed, deadlines>>
    /\ UNCHANGED <<sgVars, svVars, gdVars, ccVars>>

\* wg.Wait() returns when the counter is zero.
CoWait ==
    /\ pcCo = "wait"
    /\ wg = 0
    /\ pcCo' = "closeChans"
    /\ UNCHANGED <<pcRd, pcWr, wg, stopped, notifyErrC, respBufC,
                   chansClosed, connClosed, fileClosed, timerDur, timerAt,
                   now, wroteAt, inbound, peerSent, peerClosed, earlyResp,
                   rdResp, rdErr, wrErr, numChunks, written, genUrl, resp,
                   poresp, lateOps, param, fileSize, fileOpened, dials,
                   header, enableProgress, progress, lastUpdateTime,
                   divisors, wire, coReceived, errSent, bodyRaced, crashed,
                   deadlines>>
    /\ UNCHANGED <<sgVars, svVars, gdVars, ccVars>>

\* The deferred calls run last-in first-out: close the channels, ...
CoCloseChans ==
    /\ pcCo = "closeChans"
    /\ chansClosed' = TRUE
    /\ pcCo' = "closeConn"
    /\ UNCHANGED <<pcRd, pcWr, wg, stopped, notifyErrC, respBufC, connClosed,
                   fileClosed, timerDur, timerAt, now, wroteAt, inbound,
                   peerSent, peerClosed, earlyResp, rdResp, rdErr, wrErr,
                   numChunks, written, genUrl, resp, poresp, lateOps, param,
                   fileSize, fileOpened, dials, header, enableProgress,
                   progress, lastUpdateTime, divisors, wire, coReceived,
                   errSent, bodyRaced, crashed, deadlines>>
    /\ UNCHANGED <<sgVars, svVars, gdVars, ccVars>>

\* ... conn.Close(), ...
CoCloseConn ==
    /\ pcCo = "closeConn"
    /\ connClosed' = TRUE
    /\ pcCo' = "closeFile"
    /\ UNCHANGED <<pcRd, pcWr, wg, stopped, notifyErrC, respBufC,
                   chansClosed, fileClosed, timerDur, timerAt, now, wroteAt,
                   inbound, peerSent, peerClosed, earlyResp, rdResp, rdErr,
                   wrErr, numChunks, written, genUrl, resp, poresp, lateOps,
                   param, fileSize, fileOpened, dials, header,
                   enableProgress, progress, lastUpdateTime, divisors, wire,
                   coReceived, errSent, bodyRaced, crashed, deadlines>>
    /\ UNCHANGED <<sgVars, svVars, gdVars, ccVars>>

\* ... f.Close(); Do has returned.
CoCloseFile ==
    /\ pcCo = "closeFile"
    /\ fileClosed' = TRUE
    /\ pcCo' = "done"
    /\ UNCHANGED <<pcRd, pcWr, wg, stopped, notifyErrC, respBufC,
                   chansClosed, connClosed, timerDur, timerAt, now, wroteAt,
                   inbound, peerSent, peerClosed, earlyResp, rdResp, rdErr,
                   wrErr, numChunks, written, genUrl, resp, poresp, lateOps,
                   param, fileSize, fileOpened, dials, header,
                   enableProgress, progress, lastUpdateTime, divisors, wire,
                   coReceived, errSent, bodyRaced, crashed, deadlines>>
    /\ UNCHANGED <<sgVars, svVars, gdVars, ccVars>>

\* Reader goroutine: w.Add(1), bufio.NewReader(conn).
RdStart ==
    /\ pcRd = "start"
    /\ wg' = wg + 1
    /\ pcRd' = "check"
    /\ UNCHANGED <<pcCo, pcWr, stopped, notifyErrC, respBufC, chansClosed,
                   connClosed, fileClosed, timerDur, timerAt, now, wroteAt,
                   inbound, peerSent, peerClosed, earlyResp, rdResp, rdErr,
                   wrErr, numChunks, written, genUrl, resp, poresp, lateOps,
                   param, fileSize, fileOpened, dials, header,
                   enableProgress, progress, lastUpdateTime, divisors, wire,
                   coReceived, errSent, bodyRaced, crashed, deadlines>>
    /\ UNCHANGED <<sgVars, svVars, gdVars, ccVars>>

\* Mutant of RdCheck: the reader calls conn.SetDeadline, which sets the read
\* and the write deadline.
RdCheck_SetDeadline ==
    /\ pcRd = "check"
    /\ IF stopped > 0
       THEN pcRd' = "done" /\ wg' = wg - 1 /\ UNCHANGED deadlines
       ELSE /\ pcRd' = "read" /\ UNCHANGED wg
            /\ deadlines' = deadlines \cup {[kind |-> "read", by |-> "reader"],
                                            [kind |-> "write", by |-> "reader"]}
    /\ UNCHANGED <<pcCo, pcWr, stopped, notifyErrC, respBufC, chansClosed,
                   connClosed, fileClosed, timerDur, timerAt, now, wroteAt,
                   inbound, peerSent, peerClosed, earlyResp, rdResp, rdErr,
                   wrErr, numChunks, written, genUrl, resp, poresp, lateOps,
                   param, fileSize, fileOpened, dials, header,
                   enableProgress, progress, lastUpdateTime, divisors, wire,
                   coReceived, errSent, bodyRaced, crashed>>
    /\ UNCHANGED <<sgVars, svVars, gdVars, ccVars>>

\* if atomic.LoadInt32(&stopped) > 0 { break }, else conn.SetReadDeadline.
\* Leaving the loop runs the deferred recover(); w.Done().
RdCheck ==
    /\ pcRd = "check"
    /\ IF stopped > 0
       THEN pcRd' = "done" /\ wg' = wg - 1 /\ UNCHANGED deadlines
       ELSE /\ pcRd' = "read" /\ UNCHANGED wg
            /\ deadlines' = deadlines \cup {[kind |-> "read", by |-> "reader"]}
    /\ UNCHANGED <<pcCo, pcWr, stopped, notifyErrC, respBufC, chansClosed,
                   connClosed, fileClosed, timerDur, timerAt, now, wroteAt,
                   inbound, peerSent, peerClosed, earlyResp, rdResp, rdErr,
                   wrErr, numChunks, written, genUrl, resp, poresp, lateOps,
                   param, fileSize, fileOpened, dials, header,
                   enableProgress, progress, lastUpdateTime, divisors, wire,
                   coReceived, errSent, bodyRaced, crashed>>
    /\ UNCHANGED <<sgVars, svVars, gdVars, ccVars>>

\* Outcomes of http.ReadResponse(respReader, nil) under the one-second read
\* deadline: an error on a closed connection, a parsed response, an
\* unexpected EOF once the peer has closed, or a timeout; while the
\* coordinator reads a body from the same bufio.Reader the bytes seen may
\* also fail to parse.
ReadOutcomes ==
    IF connClosed THEN {"closed"}
    ELSE (IF inbound # <<>> THEN {"response"}
          ELSE IF peerClosed THEN {"eof"} ELSE {"timeout"})
         \cup (IF pcCo = "readBody" THEN {"malformed"} ELSE {})

\* Mutant of RdRead: a timed-out read is reported like any other error.
RdRead_TimeoutFatal ==
    /\ pcRd = "read"
    /\ \E o \in ReadOutcomes :
         IF o = "response"
         THEN /\ rdResp' = Head(inbound) /\ inbound' = Tail(inbound)
              /\ rdErr' = "" /\ pcRd' = "forward"
         ELSE /\ rdErr' = CASE o = "closed" -> "use of closed network connection"
                            [] o = "eof" -> "unexpected EOF"
                            [] o = "malformed" -> "malformed HTTP response"
                            [] o = "timeout" -> "i/o timeout"
              /\ pcRd' = "senderr"
              /\ UNCHANGED <<rdResp, inbound>>
    /\ bodyRaced' = (bodyRaced \/ (pcCo = "readBody" /\ ~connClosed))
    /\ lateOps' = Late("reader: read")
    /\ UNCHANGED <<pcCo, pcWr, wg, stopped, notifyErrC, respBufC,
                   chansClosed, connClosed, fileClosed, timerDur, timerAt,
                   now, wroteAt, peerSent, peerClosed, earlyResp, wrErr,
                   numChunks, written, genUrl, resp, poresp, param, fileSize,
                   fileOpened, dials, header, enableProgress, progress,
                   lastUpdateTime, divisors, wire, coReceived, errSent,
                   crashed, deadlines>>
    /\ UNCHANGED <<sgVars, svVars, gdVars, ccVars>>

\* resp, err := http.ReadResponse(respReader, nil) and the test of err: only
\* a *net.OpError with Timeout() is retried.
RdRead ==
    /\ pcRd = "read"
    /\ \E o \in ReadOutcomes :
         IF o = "response"
         THEN /\ rdResp' = Head(inbound) /\ inbound' = Tail(inbound)
              /\ rdErr' = "" /\ pcRd' = "forward"
         ELSE IF o = "timeout"
         THEN /\ rdErr' = "i/o timeout" /\ pcRd' = "sleep"
              /\ UNCHANGED <<rdResp, inbound>>
         ELSE /\ rdErr' = CASE o = "closed" -> "use of closed network connection"
                            [] o = "eof" -> "unexpected EOF"
                            [] o = "malformed" -> "malformed HTTP response"
              /\ pcRd' = "senderr"
              /\ UNCHANGED <<rdResp, inbound>>
    /\ bodyRaced' = (bodyRaced \/ (pcCo = "readBody" /\ ~connClosed))
    /\ lateOps' = Late("reader: read")
    /\ UNCHANGED <<pcCo, pcWr, wg, stopped, notifyErrC, respBufC,
                   chansClosed, connClosed, fileClosed, timerDur, timerAt,
                   now, wroteAt, peerSent, peerClosed, earlyResp, wrErr,
                   numChunks, written, genUrl, resp, poresp, param, fileSize,
                   fileOpened, dials, header, enableProgress, progress,
                   lastUpdateTime, divisors, wire, coReceived, errSent,
                   crashed, deadlines>>
    /\ UNCHANGED <<sgVars, svVars, gdVars, ccVars>>

\* Mutant of RdSendErr: the reader goes on with its loop after the send.
RdSendErr_NoReturn ==
    /\ pcRd = "senderr"
    /\ chansClosed \/ Len(notifyErrC) < ErrCap
    /\ notifyErrC' = IF chansClosed THEN notifyErrC ELSE Append(notifyErrC, rdErr)
    /\ errSent' = IF chansClosed THEN errSent
                  ELSE Append(errSent, [by |-> "reader", err |-> rdErr])
    /\ pcRd' = "sleep"
    /\ wg' = wg
    /\ lateOps' = Late("reader: send notifyErrC")
    /\ crashed' = (crashed \/ AfterRecover(chansClosed))
    /\ UNCHANGED <<pcCo, pcWr, stopped, respBufC, chansClosed, connClosed,
                   fileClosed, timerDur, timerAt, now, wroteAt, inbound,
                   peerSent, peerClosed, earlyResp, rdResp, rdErr, wrErr,
                   numChunks, written, genUrl, resp, poresp, param, fileSize,
                   fileOpened, dials, header, enableProgress, progress,
                   lastUpdateTime, divisors, wire, coReceived, bodyRaced,
                   deadlines>>
    /\ UNCHANGED <<sgVars, svVars, gdVars, ccVars>>

\* notifyErrC <- err; return.  A send on a closed channel panics; the
\* deferred recover() swallows the panic and w.Done() runs either way.
RdSendErr ==
    /\ pcRd = "senderr"
    /\ chansClosed \/ Len(notifyErrC) < ErrCap
    /\ notifyErrC' = IF chansClosed THEN notifyErrC ELSE Append(notifyErrC, rdErr)
    /\ errSent' = IF chansClosed THEN errSent
                  ELSE Append(errSent, [by |-> "reader", err |-> rdErr])
    /\ pcRd' = "done"
    /\ wg' = wg - 1
    /\ lateOps' = Late("reader: send notifyErrC")
    /\ crashed' = (crashed \/ AfterRecover(chansClosed))
    /\ UNCHANGED <<pcCo, pcWr, stopped, respBufC, chansClosed, connClosed,
                   fileClosed, timerDur, timerAt, now, wroteAt, inbound,
                   peerSent, peerClosed, earlyResp, rdResp, rdErr, wrErr,
                   numChunks, written, genUrl, resp, poresp, param, fileSize,
                   fileOpened, dials, header, enableProgress, progress,
                   lastUpdateTime, divisors, wire, coReceived, bodyRaced,
                   deadlines>>
    /\ UNCHANGED <<sgVars, svVars, gdVars, ccVars>>

\* respBufC <- resp: blocks while the buffer is full.
RdForward ==
    /\ pcRd = "forward"
    /\ chansClosed \/ Len(respBufC) < RespCap
    /\ IF chansClosed
       THEN pcRd' = "done" /\ wg' = wg - 1 /\ UNCHANGED respBufC
       ELSE pcRd' = "sleep" /\ respBufC' = Append(respBufC, rdResp) /\ UNCHANGED wg
    /\ lateOps' = Late("reader: send respBufC")
    /\ crashed' = (crashed \/ AfterRecover(chansClosed))
    /\ UNCHANGED <<pcCo, pcWr, stopped, notifyErrC, chansClosed, connClosed,
                   fileClosed, timerDur, timerAt, now, wroteAt, inbound,
                   peerSent, peerClosed, earlyResp, rdResp, rdErr, wrErr,
                   numChunks, written, genUrl, resp, poresp, param, fileSize,
                   fileOpened, dials, header, enableProgress, progress,
                   lastUpdateTime, divisors, wire, coReceived, errSent,
                   bodyRaced, deadlines>>
    /\ UNCHANGED <<sgVars, svVars, gdVars, ccVars>>

\* time.Sleep(100 * time.Millisecond); the iteration ends and its resp and err
\* go out of scope.
RdSleep ==
    /\ pcRd = "sleep"
    /\ pcRd' = "check"
    /\ rdResp' = 0 /\ rdErr' = ""
    /\ UNCHANGED <<pcCo, pcWr, wg, stopped, notifyErrC, respBufC,
                   chansClosed, connClosed, fileClosed, timerDur, timerAt,
                   now, wroteAt, inbound, peerSent, peerClosed, earlyResp,
                   wrErr, numChunks, written, genUrl, resp, poresp, lateOps,
                   param, fileSize, fileOpened, dials, header,
                   enableProgress, progress, lastUpdateTime, divisors, wire,
                   coReceived, errSent, bodyRaced, crashed, deadlines>>
    /\ UNCHANGED <<sgVars, svVars, gdVars, ccVars>>

\* Outcomes of conn.Write: it fails on a connection closed locally, may fail
\* once the peer has closed, and succeeds otherwise.
WriteOutcomes ==
    IF connClosed THEN {FALSE}
    ELSE IF peerClosed THEN {TRUE, FALSE}
    ELSE {TRUE}

\* Writer goroutine: w.Add(1).
WrStart ==
    /\ pcWr = "start"
    /\ wg' = wg + 1
    /\ pcWr' = "header"
    /\ UNCHANGED <<pcCo, pcRd, stopped, notifyErrC, respBufC, chansClosed,
                   connClosed, fileClosed, timerDur, timerAt, now, wroteAt,
                   inbound, peerSent, peerClosed, earlyResp, rdResp, rdErr,
                   wrErr, numChunks, written, genUrl, resp, poresp, lateOps,
                   param, fileSize, fileOpened, dials, header,
                   enableProgress, progress, lastUpdateTime, divisors, wire,
                   coReceived, errSent, bodyRaced, crashed, deadlines>>
    /\ UNCHANGED <<sgVars, svVars, gdVars, ccVars>>

\* conn.Write(buf.Bytes()), then f.Seek(0, os.SEEK_SET).
WrHeader ==
    /\ pcWr = "header"
    /\ \E ok \in WriteOutcomes :
         IF ok THEN pcWr' = "body" /\ wire' = wire \o header /\ UNCHANGED wrErr
         ELSE pcWr' = "senderr" /\ wrErr' = "Write http header err" /\ UNCHANGED wire
    /\ lateOps' = Late("writer: write header")
    /\ UNCHANGED <<pcCo, pcRd, wg, stopped, notifyErrC, respBufC,
                   chansClosed, connClosed, fileClosed, timerDur, timerAt,
                   now, wroteAt, inbound, peerSent, peerClosed, earlyResp,
                   rdResp, rdErr, numChunks, written, genUrl, resp, poresp,
                   param, fileSize, fileOpened, dials, header,
                   enableProgress, progress, lastUpdateTime, divisors,
                   coReceived, errSent, bodyRaced, crashed, deadlines>>
    /\ UNCHANGED <<sgVars, svVars, gdVars, ccVars>>

\* The `if r.enableProgress { ... }` block after a chunk was written, with
\* w chunks written so far.  `recent` says that less than a second has passed
\* since lastUpdateTime, which cannot be while lastUpdateTime is the zero time.
RecordProgress(w, recent) ==
    IF ~enableProgress \/ (recent /\ lastUpdateTime # "zero") \/ ~(fileSize > 0)
    THEN UNCHANGED <<progress, lastUpdateTime, divisors>>
    ELSE /\ progress' = <<(WriteCount(w) * 100) \div fileSize>>
         /\ lastUpdateTime' = "set"
         /\ divisors' = divisors \cup {fileSize}

\* One iteration of the body loop: f.Read(chunk), then conn.Write(chunk[:n])
\* under the five-second write deadline, then the progress record.
WrBody ==
    /\ pcWr = "body"
    /\ IF fileClosed
       THEN /\ pcWr' = "senderr" /\ wrErr' = "Read file err"
            /\ UNCHANGED <<written, lateOps, wire, progress, lastUpdateTime, divisors,
                           deadlines>>
       ELSE IF written = numChunks
       THEN /\ pcWr' = "crlf"
            /\ UNCHANGED <<wrErr, written, lateOps, wire, progress, lastUpdateTime,
                           divisors, deadlines>>
       ELSE /\ \E ok \in WriteOutcomes :
                 IF ok
                 THEN /\ pcWr' = "body" /\ written' = written + 1
                      /\ wire' = Append(wire,
                            [kind |-> "chunk", off |-> WriteCount(written),
                             n |-> WriteCount(written + 1) - WriteCount(written)])
                      /\ \E recent \in BOOLEAN : RecordProgress(written + 1, recent)
                      /\ UNCHANGED wrErr
                 ELSE /\ pcWr' = "senderr" /\ wrErr' = "Send err"
                      /\ UNCHANGED <<written, wire, progress, lastUpdateTime, divisors>>
            /\ lateOps' = Late("writer: write chunk")
            /\ deadlines' = deadlines \cup {[kind |-> "write", by |-> "writer"]}
    /\ UNCHANGED <<pcCo, pcRd, wg, stopped, notifyErrC, respBufC,
                   chansClosed, connClosed, fileClosed, timerDur, timerAt,
                   now, wroteAt, inbound, peerSent, peerClosed, earlyResp,
                   rdResp, rdErr, numChunks, genUrl, resp, poresp, param,
                   fileSize, fileOpened, dials, header, enableProgress,
                   coReceived, errSent, bodyRaced, crashed>>
    /\ UNCHANGED <<sgVars, svVars, gdVars, ccVars>>

\* Mutant of WrCrlf: the final r.progress.Store(float64(100)) is dropped.
WrCrlf_NoFinalStore ==
    /\ pcWr = "crlf"
    /\ \E ok \in WriteOutcomes :
         IF ok
         THEN /\ pcWr' = "done" /\ wg' = wg - 1 /\ wroteAt' = now
              /\ wire' = Append(wire, [kind |-> "crlf", n |-> 2])
              /\ UNCHANGED <<wrErr, progress>>
         ELSE /\ pcWr' = "senderr" /\ wrErr' = "Send err"
              /\ UNCHANGED <<wg, wroteAt, wire, progress>>
    /\ lateOps' = Late("writer: write CRLF")
    /\ UNCHANGED <<pcCo, pcRd, stopped, notifyErrC, respBufC, chansClosed,
                   connClosed, fileClosed, timerDur, timerAt, now, inbound,
                   peerSent, peerClosed, earlyResp, rdResp, rdErr, numChunks,
                   written, genUrl, resp, poresp, param, fileSize,
                   fileOpened, dials, header, enableProgress, lastUpdateTime,
                   divisors, coReceived, errSent, bodyRaced, crashed,
                   deadlines>>
    /\ UNCHANGED <<sgVars, svVars, gdVars, ccVars>>

\* conn.Write("\r\n"), then r.progress.Store(float64(100)) if progress is
\* enabled; the goroutine ends (deferred w.Done()).  Nothing is sent on
\* writeDoneC.
WrCrlf ==
    /\ pcWr = "crlf"
    /\ \E ok \in WriteOutcomes :
         IF ok
         THEN /\ pcWr' = "done" /\ wg' = wg - 1 /\ wroteAt' = now
              /\ wire' = Append(wire, [kind |-> "crlf", n |-> 2])
              /\ progress' = IF enableProgress THEN <<100>> ELSE progress
              /\ UNCHANGED wrErr
         ELSE /\ pcWr' = "senderr" /\ wrErr' = "Send err"
              /\ UNCHANGED <<wg, wroteAt, wire, progress>>
    /\ lateOps' = Late("writer: write CRLF")
    /\ UNCHANGED <<pcCo, pcRd, stopped, notifyErrC, respBufC, chansClosed,
                   connClosed, fileClosed, timerDur, timerAt, now, inbound,
                   peerSent, peerClosed, earlyResp, rdResp, rdErr, numChunks,
                   written, genUrl, resp, poresp, param, fileSize,
                   fileOpened, dials, header, enableProgress, lastUpdateTime,
                   divisors, coReceived, errSent, bodyRaced, crashed,
                   deadlines>>
    /\ UNCHANGED <<sgVars, svVars, gdVars, ccVars>>

\* notifyErrC <- fmt.Errorf(...); return.
WrSendErr ==
    /\ pcWr = "senderr"
    /\ chansClosed \/ Len(notifyErrC) < ErrCap
    /\ notifyErrC' = IF chansClosed THEN notifyErrC ELSE Append(notifyErrC, wrErr)
    /\ errSent' = IF chansClosed THEN errSent
                  ELSE Append(errSent, [by |-> "writer", err |-> wrErr])
    /\ pcWr' = "done"
    /\ wg' = wg - 1
    /\ lateOps' = Late("writer: send notifyErrC")
    /\ crashed' = (crashed \/ AfterRecover(chansClosed))
    /\ UNCHANGED <<pcCo, pcRd, stopped, respBufC, chansClosed, connClosed,
                   fileClosed, timerDur, timerAt, now, wroteAt, inbound,
                   peerSent, peerClosed, earlyResp, rdResp, rdErr, wrErr,
                   numChunks, written, genUrl, resp, poresp, param, fileSize,
                   fileOpened, dials, header, enableProgress, progress,
                   lastUpdateTime, divisors, wire, coReceived, bodyRaced,
                   deadlines>>
    /\ UNCHANGED <<sgVars, svVars, gdVars, ccVars>>

\* The connection exists from the dial until the local close.
ConnOpen == pcRd # "none" /\ ~connClosed

\* The peer sends one complete response.
PeerRespond ==
    /\ ConnOpen
    /\ ~peerClosed
    /\ Len(peerSent) < MaxResponses
    /\ \E s \in Statuses :
         /\ inbound' = Append(inbound, s)
         /\ peerSent' = Append(peerSent, s)
         /\ earlyResp' =
               IF /\ s >= 200
                  /\ \A i \in 1..Len(peerSent) : peerSent[i] < 200
                  /\ pcWr \in {"start", "header", "body", "crlf"}
               THEN s ELSE earlyResp
    /\ UNCHANGED <<pcCo, pcRd, pcWr, wg, stopped, notifyErrC, respBufC,
                   chansClosed, connClosed, fileClosed, timerDur, timerAt,
                   now, wroteAt, peerClosed, rdResp, rdErr, wrErr, numChunks,
                   written, genUrl, resp, poresp, lateOps, param, fileSize,
                   fileOpened, dials, header, enableProgress, progress,
                   lastUpdateTime, divisors, wire, coReceived, errSent,
                   bodyRaced, crashed, deadlines>>
    /\ UNCHANGED <<sgVars, svVars, gdVars, ccVars>>

\* The peer closes the connection.
PeerClose ==
    /\ ConnOpen
    /\ ~peerClosed
    /\ peerClosed' = TRUE
    /\ UNCHANGED <<pcCo, pcRd, pcWr, wg, stopped, notifyErrC, respBufC,
                   chansClosed, connClosed, fileClosed, timerDur, timerAt,
                   now, wroteAt, inbound, peerSent, earlyResp, rdResp, rdErr,
                   wrErr, numChunks, written, genUrl, resp, poresp, lateOps,
                   param, fileSize, fileOpened, dials, header,
                   enableProgress, progress, lastUpdateTime, divisors, wire,
                   coReceived, errSent, bodyRaced, crashed, deadlines>>
    /\ UNCHANGED <<sgVars, svVars, gdVars, ccVars>>

\* One second passes while the coordinator is in its loop.
Tick ==
    /\ pcCo = "select"
    /\ now < MaxClock
    /\ now' = now + 1
    /\ UNCHANGED <<pcCo, pcRd, pcWr, wg, stopped, notifyErrC, respBufC,
                   chansClosed, connClosed, fileClosed, timerDur, timerAt,
                   wroteAt, inbound, peerSent, peerClosed, earlyResp, rdResp,
                   rdErr, wrErr, numChunks, written, genUrl, resp, poresp,
                   lateOps, param, fileSize, fileOpened, dials, header,
                   enableProgress, progress, lastUpdateTime, divisors, wire,
                   coReceived, errSent, bodyRaced, crashed, deadlines>>
    /\ UNCHANGED <<sgVars, svVars, gdVars, ccVars>>

\* The steps of one call of Do and of its peer, time standing still.
PutNext ==
    \/ CoValidate \/ CoOpen \/ CoMd5 \/ CoHeader \/ CoDial
    \/ CoSelect \/ CoReadBody \/ CoStop \/ CoWait
    \/ CoCloseChans \/ CoCloseConn \/ CoCloseFile
    \/ RdStart \/ RdCheck \/ RdRead \/ RdSendErr \/ RdForward \/ RdSleep
    \/ WrStart \/ WrHeader \/ WrBody \/ WrCrlf \/ WrSendErr
    \/ PeerRespond \/ PeerClose

\* The same steps with the passing of time.
TimedNext == PutNext \/ Tick

(***************************************************************************)
(* ceph/obj.go: GetObjRequest.Do, getByName/getByURL and save.             *)
(***************************************************************************)
Absent == [exists |-> FALSE, data |-> <<>>]

File(d) == [exists |-> TRUE, data |-> d]

\* Whole-file digest, base64 encoded (injective constructor).
Base64MD5(d) == <<"md5", d>>

Bodies == UNION {[1..n -> {"a", "b"}] : n \in 0..MaxSize}

\* The state of the progress poller of save.
pollVars == <<svEnableProgress, svProgress, pcPoll, svPolls>>

SvIdle ==
    /\ pcSv = "idle" /\ svBody = <<>> /\ svSrcFails = FALSE
    /\ objSize = 0 /\ base64Md5 = <<>>
    /\ tmpFile = Absent /\ dstFile = Absent /\ dstBefore = Absent
    /\ svWritten = 0 /\ svCopied = FALSE /\ svSynced = FALSE /\ saveErr = ""
    /\ svParam = NilParam /\ svHttp = <<>> /\ goErr = ""
    /\ svEnableProgress = FALSE /\ svProgress = <<>>
    /\ pcPoll = "none" /\ svPolls = 0

\* The request as constructed and the arguments of Do; svBody is the body the
\* server will deliver, the files are what the disk holds.
SvInit ==
    /\ pcSv = "validate"
    /\ svBody \in Bodies
    /\ svSrcFails \in BOOLEAN
    /\ objSize = 0
    /\ base64Md5 \in {<<>>} \cup {Base64MD5(d) : d \in Bodies}
    /\ tmpFile \in {Absent, File(<<"s", "t", "a", "l", "e">>)}
    /\ dstFile \in {Absent, File(<<"o", "l", "d">>)}
    /\ dstBefore = dstFile
    /\ svWritten = 0 /\ svCopied = FALSE /\ svSynced = FALSE /\ saveErr = ""
    /\ svParam \in Params /\ svHttp = <<>> /\ goErr = ""
    /\ svEnableProgress \in BOOLEAN
    /\ svProgress = IF svEnableProgress THEN <<0>> ELSE <<>>
    /\ pcPoll = "none" /\ svPolls = 0

\* GetObjRequest.Do: if p == nil { ... }; if err := p.Validate(); err != nil { ... }
SvValidate ==
    /\ pcSv = "validate"
    /\ IF svParam.nil
       THEN pcSv' = "returned" /\ goErr' = "Nil RequestParam"
       ELSE IF Validate(svParam) # ""
       THEN /\ pcSv' = "returned"
            /\ goErr' = "Validate RequestParam err, " \o Validate(svParam)
       ELSE pcSv' = "info" /\ UNCHANGED goErr
    /\ UNCHANGED <<svBody, svSrcFails, objSize, base64Md5, tmpFile, dstFile,
                   dstBefore, svWritten, svCopied, svSynced, saveErr, svParam,
                   svHttp>>
    /\ UNCHANGED pollVars
    /\ UNCHANGED <<sgVars, putVars, gdVars, ccVars>>

\* getByName/getByURL: the object-metadata request (a HEAD request) and
\* r.objSize = the size it reports.
SvGetInfo ==
    /\ pcSv = "info"
    /\ svHttp' = Append(svHttp, "HEAD")
    /\ \E ok \in BOOLEAN :
         IF ok THEN pcSv' = "get" /\ objSize' \in 0..MaxSize /\ UNCHANGED goErr
         ELSE /\ pcSv' = "returned" /\ goErr' = "Get object info err"
              /\ UNCHANGED objSize
    /\ UNCHANGED <<svBody, svSrcFails, base64Md5, tmpFile, dstFile, dstBefore,
                   svWritten, svCopied, svSynced, saveErr, svParam>>
    /\ UNCHANGED pollVars
    /\ UNCHANGED <<sgVars, putVars, gdVars, ccVars>>

\* Mutant of SvGet: the temp file is created before the status is tested.
SvGet_CreatesTemp ==
    /\ pcSv = "get"
    /\ svHttp' = Append(svHttp, "GET")
    /\ \E o \in {"transport error", "not 200", "200"} :
         CASE o = "transport error" ->
                 pcSv' = "returned" /\ goErr' = "Do request err"
           [] o = "not 200" ->
                 pcSv' = "returned" /\ goErr' = "response body"
           [] o = "200" ->
                 pcSv' = "open" /\ UNCHANGED goErr
    /\ tmpFile' = File(<<>>)
    /\ UNCHANGED <<svBody, svSrcFails, objSize, base64Md5, dstFile, dstBefore,
                   svWritten, svCopied, svSynced, saveErr, svParam>>
    /\ UNCHANGED pollVars
    /\ UNCHANGED <<sgVars, putVars, gdVars, ccVars>>

\* http.NewRequest, http.DefaultClient.Do(req) and the status test.
SvGet ==
    /\ pcSv = "get"
    /\ svHttp' = Append(svHttp, "GET")
    /\ \E o \in {"transport error", "not 200", "200"} :
         CASE o = "transport error" ->
                 pcSv' = "returned" /\ goErr' = "Do request err"
           [] o = "not 200" ->
                 pcSv' = "returned" /\ goErr' = "response body"
           [] o = "200" ->
                 pcSv' = "open" /\ UNCHANGED goErr
    /\ UNCHANGED <<svBody, svSrcFails, objSize, base64Md5, tmpFile, dstFile,
                   dstBefore, svWritten, svCopied, svSynced, saveErr, svParam>>
    /\ UNCHANGED pollVars
    /\ UNCHANGED <<sgVars, putVars, gdVars, ccVars>>

\* os.OpenFile(tmpPath, O_RDWR|O_CREATE|O_TRUNC, 0644); with progress
\* enabled, stopC is made and the poller is started.
SvOpen ==
    /\ pcSv = "open"
    /\ \E ok \in BOOLEAN :
         IF ok
         THEN /\ pcSv' = "copy" /\ tmpFile' = File(<<>>) /\ UNCHANGED saveErr
              /\ pcPoll' = IF svEnableProgress THEN "select" ELSE pcPoll
         ELSE /\ pcSv' = "cleanup" /\ saveErr' = "Open file err"
              /\ UNCHANGED <<tmpFile, pcPoll>>
    /\ UNCHANGED <<svBody, svSrcFails, objSize, base64Md5, dstFile, dstBefore,
                   svWritten, svCopied, svSynced>>
    /\ UNCHANGED <<svParam, svHttp, goErr>>
    /\ UNCHANGED <<svEnableProgress, svProgress, svPolls>>
    /\ UNCHANGED <<sgVars, putVars, gdVars, ccVars>>

\* io.Copy(f, src): one read from the stream and one write to the temp file
\* per step; the stream ends with EOF or with an error.
SvCopy ==
    /\ pcSv = "copy"
    /\ IF svWritten < Len(svBody)
       THEN \E ok \in BOOLEAN :
              IF ok
              THEN /\ tmpFile' = File(Append(tmpFile.data, svBody[svWritten + 1]))
                   /\ svWritten' = svWritten + 1
                   /\ UNCHANGED <<pcSv, saveErr, svCopied>>
              ELSE /\ pcSv' = "cleanup" /\ saveErr' = "Write file content err"
                   /\ UNCHANGED <<tmpFile, svWritten, svCopied>>
       ELSE IF svSrcFails
       THEN /\ pcSv' = "cleanup" /\ saveErr' = "Write file content err"
            /\ UNCHANGED <<tmpFile, svWritten, svCopied>>
       ELSE /\ pcSv' = "size" /\ svCopied' = TRUE
            /\ UNCHANGED <<tmpFile, svWritten, saveErr>>
    /\ UNCHANGED <<svBody, svSrcFails, objSize, base64Md5, dstFile, dstBefore,
                   svSynced>>
    /\ UNCHANGED <<svParam, svHttp, goErr>>
    /\ UNCHANGED pollVars
    /\ UNCHANGED <<sgVars, putVars, gdVars, ccVars>>

\* Mutant of SvSize: the size comparison is dropped.
SvSize_Unchecked ==
    /\ pcSv = "size"
    /\ pcSv' = "sync"
    /\ UNCHANGED <<svBody, svSrcFails, objSize, base64Md5, tmpFile, dstFile,
                   dstBefore, svWritten, svCopied, svSynced, saveErr>>
    /\ UNCHANGED <<svParam, svHttp, goErr>>
    /\ UNCHANGED pollVars
    /\ UNCHANGED <<sgVars, putVars, gdVars, ccVars>>

\* if written != r.objSize
SvSize ==
    /\ pcSv = "size"
    /\ IF svWritten # objSize
       THEN pcSv' = "cleanup" /\ saveErr' = "Loss of data during writing"
       ELSE pcSv' = "sync" /\ UNCHANGED saveErr
    /\ UNCHANGED <<svBody, svSrcFails, objSize, base64Md5, tmpFile, dstFile,
                   dstBefore, svWritten, svCopied, svSynced>>
    /\ UNCHANGED <<svParam, svHttp, goErr>>
    /\ UNCHANGED pollVars
    /\ UNCHANGED <<sgVars, putVars, gdVars, ccVars>>

\* f.Sync()
SvSync ==
    /\ pcSv = "sync"
    /\ \E ok \in BOOLEAN :
         IF ok THEN pcSv' = "md5" /\ svSynced' = TRUE /\ UNCHANGED saveErr
         ELSE pcSv' = "cleanup" /\ saveErr' = "Sync object to file err"
              /\ UNCHANGED svSynced
    /\ UNCHANGED <<svBody, svSrcFails, objSize, base64Md5, tmpFile, dstFile,
                   dstBefore, svWritten, svCopied>>
    /\ UNCHANGED <<svParam, svHttp, goErr>>
    /\ UNCHANGED pollVars
    /\ UNCHANGED <<sgVars, putVars, gdVars, ccVars>>

\* if len(r.base64Md5) > 0 { Base64MD5(f) ... }
SvChecksum ==
    /\ pcSv = "md5"
    /\ IF Len(base64Md5) > 0
       THEN \E ok \in BOOLEAN :
              IF ~ok THEN pcSv' = "cleanup" /\ saveErr' = "Cal Base64MD5 err"
              ELSE IF Base64MD5(tmpFile.data) # base64Md5
              THEN pcSv' = "cleanup" /\ saveErr' = "Base64Md5 not equal"
              ELSE pcSv' = "rename" /\ UNCHANGED saveErr
       ELSE pcSv' = "rename" /\ UNCHANGED saveErr
    /\ UNCHANGED <<svBody, svSrcFails, objSize, base64Md5, tmpFile, dstFile,
                   dstBefore, svWritten, svCopied, svSynced>>
    /\ UNCHANGED <<svParam, svHttp, goErr>>
    /\ UNCHANGED pollVars
    /\ UNCHANGED <<sgVars, putVars, gdVars, ccVars>>

\* os.Rename(tmpPath, r.savePath)
SvRename ==
    /\ pcSv = "rename"
    /\ \E ok \in BOOLEAN :
         IF ok THEN dstFile' = tmpFile /\ tmpFile' = Absent /\ UNCHANGED saveErr
         ELSE saveErr' = "Rename file err" /\ UNCHANGED <<tmpFile, dstFile>>
    /\ pcSv' = "cleanup"
    /\ UNCHANGED <<svBody, svSrcFails, objSize, base64Md5, dstBefore, svWritten,
                   svCopied, svSynced>>
    /\ UNCHANGED <<svParam, svHttp, goErr>>
    /\ UNCHANGED pollVars
    /\ UNCHANGED <<sgVars, putVars, gdVars, ccVars>>

\* Mutant of SvCleanup: the temp file is not removed.
SvCleanup_NoRemove ==
    /\ pcSv = "cleanup"
    /\ pcPoll # "panic"
    /\ pcSv' = "done"
    /\ UNCHANGED <<svBody, svSrcFails, objSize, base64Md5, tmpFile, dstFile,
                   dstBefore, svWritten, svCopied, svSynced, saveErr>>
    /\ UNCHANGED <<svParam, svHttp, goErr>>
    /\ UNCHANGED pollVars
    /\ UNCHANGED <<sgVars, putVars, gdVars, ccVars>>

\* if saveErr != nil { os.Remove(tmpPath) }; return saveErr; the caller
\* stores the error in goresp.err and returns.  Nothing runs once a panic has
\* ended the process.
SvCleanup ==
    /\ pcSv = "cleanup"
    /\ pcPoll # "panic"
    /\ tmpFile' = IF saveErr # "" THEN Absent ELSE tmpFile
    /\ pcSv' = "done"
    /\ UNCHANGED <<svBody, svSrcFails, objSize, base64Md5, dstFile, dstBefore,
                   svWritten, svCopied, svSynced, saveErr>>
    /\ goErr' = saveErr
    /\ UNCHANGED <<svParam, svHttp>>
    /\ UNCHANGED pollVars
    /\ UNCHANGED <<sgVars, putVars, gdVars, ccVars>>

\* The function literal of save has returned: its deferred calls have closed
\* stopC and then f.
StopClosed == pcSv \in {"cleanup", "done"}

\* Outcomes of f.Stat(): it fails on a closed file.
StatOutcomes == IF StopClosed THEN {"error"} ELSE {"ok"}

\* The poller, case <-time.After(time.Second): info, err := f.Stat();
\* if err == nil { continue }: a successful size poll stores nothing.  After
\* a failed one info is nil, so with r.objSize > 0 the call info.Size()
\* panics, and the poller has no recover.  The select may take this case
\* while stopC is ready too.
PollTick ==
    /\ pcPoll = "select"
    /\ \E o \in StatOutcomes :
         IF o = "ok"
         THEN /\ svPolls < MaxPolls
              /\ svPolls' = svPolls + 1
              /\ UNCHANGED <<pcPoll, svProgress>>
         ELSE /\ pcPoll' = IF objSize > 0 THEN "panic" ELSE pcPoll
              /\ UNCHANGED <<svPolls, svProgress>>
    /\ UNCHANGED <<pcSv, svBody, svSrcFails, objSize, base64Md5, tmpFile, dstFile,
                   dstBefore, svWritten, svCopied, svSynced, saveErr, svParam,
                   svHttp, goErr, svEnableProgress>>
    /\ UNCHANGED <<sgVars, putVars, gdVars, ccVars>>

\* The poller, case <-stopC: r.progress.Store(float64(100)); return.
PollStop ==
    /\ pcPoll = "select"
    /\ StopClosed
    /\ svProgress' = <<100>>
    /\ pcPoll' = "done"
    /\ UNCHANGED <<pcSv, svBody, svSrcFails, objSize, base64Md5, tmpFile, dstFile,
                   dstBefore, svWritten, svCopied, svSynced, saveErr, svParam,
                   svHttp, goErr, svEnableProgress, svPolls>>
    /\ UNCHANGED <<sgVars, putVars, gdVars, ccVars>>

SaveNext ==
    \/ SvValidate \/ SvGetInfo \/ SvGet
    \/ SvOpen \/ SvCopy \/ SvSize \/ SvSync \/ SvChecksum \/ SvRename \/ SvCleanup
    \/ PollTick \/ PollStop

(***************************************************************************)
(* ceph/obj.go: GenDownloadUrl.                                            *)
(***************************************************************************)
Buckets == {"b", "my bucket"}

ObjNames == {"o", "a/b", "x?y"}

\* url.PathEscape on the names of the model.
PathEscape(s) ==
    CASE s = "b" -> "b"
      [] s = "my bucket" -> "my%20bucket"
      [] s = "o" -> "o"
      [] s = "a/b" -> "a%2Fb"
      [] s = "x?y" -> "x%3Fy"

\* url.QueryEscape of a base64 text ('+', '/' and '=' become %2B, %2F and
\* %3D): an injective constructor, like the signature it is applied to.
QueryEscape(b64) == <<"query-escaped", b64>>

\* url.QueryEscape of a decimal number: digits are not escaped.
QueryEscapeDecimal(s) == s

\* fmt.Sprintf("%d", ...) of a non-negative number.
FormatInt(n) == ToString(n)

\* The request built for signing: GET on the escaped URL (whose url.Path is
\* the unescaped path) with the single header Expires.
SigningRequest(bucket, objName, expiredStr) ==
    [Method |-> "GET", Header |-> ("Expires" :> <<expiredStr>>),
     Path |-> "/" \o bucket \o "/" \o objName, RawQuery |-> <<>>]

\* Mutant of DownloadUrl: the object name is not escaped.
DownloadUrl_RawObject(bucket, objName, p, signed, expired, nowUnix) ==
    LET path == <<"http://", p.Host, "/", PathEscape(bucket), "/", objName>>
        expiredStr == FormatInt(nowUnix + expired)
        req == SigningRequest(bucket, objName, expiredStr)
        signature == QueryEscape(Signature(p.SecretKey, req, <<"Expires">>, <<>>))
    IN IF signed
       THEN path \o <<"?Signature=", signature, "&Expires=",
                      QueryEscapeDecimal(expiredStr), "&AWSAccessKeyId=", p.AccessKey>>
       ELSE path

\* The part of GenDownloadUrl after the object check: the parts of the URL.
DownloadUrl(bucket, objName, p, signed, expired, nowUnix) ==
    LET path == <<"http://", p.Host, "/", PathEscape(bucket), "/", PathEscape(objName)>>
        expiredStr == FormatInt(nowUnix + expired)
        req == SigningRequest(bucket, objName, expiredStr)
        signature == QueryEscape(Signature(p.SecretKey, req, <<"Expires">>, <<>>))
    IN IF signed
       THEN path \o <<"?Signature=", signature, "&Expires=",
                      QueryEscapeDecimal(expiredStr), "&AWSAccessKeyId=", p.AccessKey>>
       ELSE path

GdIdle ==
    /\ gdPc = "idle" /\ gdBucket = "b" /\ gdObj = "o" /\ gdParam = NilParam
    /\ gdSigned = FALSE /\ gdExpired = 0 /\ gdNow = 0
    /\ gdUrl = <<>> /\ gdErr = "" /\ gdHead = ""

GdInit ==
    /\ gdPc = "check"
    /\ gdBucket \in Buckets /\ gdObj \in ObjNames
    /\ gdParam \in Params
    /\ gdSigned \in BOOLEAN
    /\ gdExpired \in {0, 60, 3600}
    /\ gdNow \in {1000, 2000}
    /\ gdUrl = <<>> /\ gdErr = "" /\ gdHead = ""

\* Mutant of GdCheck: a URL is returned along with the error.
GdCheck_UrlOnFailure ==
    /\ gdPc = "check"
    /\ \E headOK \in BOOLEAN :
         IF gdParam.nil \/ Validate(gdParam) # "" \/ ~headOK
         THEN /\ gdPc' = "done" /\ gdErr' = "Bad object" /\ gdHead' = "failed"
              /\ gdUrl' = <<"http://", gdParam.Host, "/", PathEscape(gdBucket), "/",
                            PathEscape(gdObj)>>
         ELSE gdPc' = "build" /\ gdHead' = "ok" /\ UNCHANGED <<gdErr, gdUrl>>
    /\ UNCHANGED <<gdBucket, gdObj, gdParam, gdSigned, gdExpired, gdNow>>
    /\ UNCHANGED <<sgVars, putVars, svVars, ccVars>>

\* NewGetObjInfoRequest(bucket, objName).Do(p): the parameters are validated
\* and a HEAD request is sent; any failure is returned as 'Bad object'.
GdCheck ==
    /\ gdPc = "check"
    /\ \E headOK \in BOOLEAN :
         IF gdParam.nil \/ Validate(gdParam) # "" \/ ~headOK
         THEN gdPc' = "done" /\ gdErr' = "Bad object" /\ gdHead' = "failed"
         ELSE gdPc' = "build" /\ gdHead' = "ok" /\ UNCHANGED gdErr
    /\ UNCHANGED <<gdBucket, gdObj, gdParam, gdSigned, gdExpired, gdNow, gdUrl>>
    /\ UNCHANGED <<sgVars, putVars, svVars, ccVars>>

\* The escapes, the path, and the signed form when signed is set.
GdBuild ==
    /\ gdPc = "build"
    /\ gdUrl' = DownloadUrl(gdBucket, gdObj, gdParam, gdSigned, gdExpired, gdNow)
    /\ gdPc' = "done"
    /\ UNCHANGED <<gdBucket, gdObj, gdParam, gdSigned, gdExpired, gdNow, gdErr,
                   gdHead>>
    /\ UNCHANGED <<sgVars, putVars, svVars, ccVars>>

UrlNext == GdCheck \/ GdBuild

(***************************************************************************)
(* ceph/obj.go: GetObjRequest.save called by two requests that have the    *)
(* same savePath.  Both calls compute the same temp name, savePath +       *)
(* ".download".  A name refers to a file (0 when the name does not exist), *)
(* an open f keeps referring to its file whatever happens to the names,    *)
(* and each f has its own offset.                                          *)
(***************************************************************************)

Calls == 1..2

\* A byte of a hole, left by a write beyond the end of a file.
Zero == "0"

\* The bodies of the two responses.
FirstBodies == {<<"a">>, <<"a", "b">>}
SecondBodies == {<<"x">>, <<"x", "y">>}

\* f.Write of one byte at offset off: the file is extended with zero bytes
\* when off lies beyond its end.
WriteAt(data, off, b) ==
    IF off < Len(data) THEN [data EXCEPT ![off + 1] = b]
    ELSE data \o [i \in 1..(off - Len(data)) |-> Zero] \o <<b>>

CcIdle ==
    /\ ccPc = [c \in Calls |-> "idle"]
    /\ ccBody = [c \in Calls |-> <<>>]
    /\ ccMd5 = [c \in Calls |-> <<>>]
    /\ ccF = [c \in Calls |-> 0]
    /\ ccWritten = [c \in Calls |-> 0]
    /\ ccErr = [c \in Calls |-> ""]
    /\ ccTmpPath = 0 /\ ccSavePath = 0
    /\ ccInodes = [c \in Calls |-> <<>>]

\* Both requests have received their 200 response and enter save; neither
\* name exists.  r.objSize of each request is the length of its body.
CcInit ==
    /\ ccPc = [c \in Calls |-> "open"]
    /\ ccBody \in {b \in [Calls -> FirstBodies \cup SecondBodies] :
                      b[1] \in FirstBodies /\ b[2] \in SecondBodies}
    /\ ccMd5 \in {m \in [Calls -> {<<>>} \cup {Base64MD5(d) : d \in FirstBodies \cup SecondBodies}] :
                     \A c \in Calls : m[c] \in {<<>>, Base64MD5(ccBody[c])}}
    /\ ccF = [c \in Calls |-> 0]
    /\ ccWritten = [c \in Calls |-> 0]
    /\ ccErr = [c \in Calls |-> ""]
    /\ ccTmpPath = 0 /\ ccSavePath = 0
    /\ ccInodes = [c \in Calls |-> <<>>]

\* The function literal of save returns err.
CcFail(c, err) ==
    /\ ccPc' = [ccPc EXCEPT ![c] = "cleanup"]
    /\ ccErr' = [ccErr EXCEPT ![c] = err]

\* os.OpenFile(tmpPath, os.O_RDWR|os.O_CREATE|os.O_TRUNC, 0644): the file the
\* temp name refers to is emptied, or a new file is created under the name.
CcOpen(c) ==
    /\ ccPc[c] = "open"
    /\ \E ok \in BOOLEAN :
         IF ok
         THEN LET file == IF ccTmpPath = 0 THEN c ELSE ccTmpPath
              IN /\ ccTmpPath' = file
                 /\ ccInodes' = [ccInodes EXCEPT ![file] = <<>>]
                 /\ ccF' = [ccF EXCEPT ![c] = file]
                 /\ ccPc' = [ccPc EXCEPT ![c] = "copy"]
                 /\ UNCHANGED ccErr
         ELSE /\ CcFail(c, "Open file err")
              /\ UNCHANGED <<ccTmpPath, ccInodes, ccF>>
    /\ UNCHANGED <<ccBody, ccMd5, ccWritten, ccSavePath>>
    /\ UNCHANGED <<sgVars, putVars, svVars, gdVars>>

\* io.Copy(f, src): one byte of the stream is written at the offset of f, or
\* the stream has ended, or reading it failed.
CcCopy(c) ==
    /\ ccPc[c] = "copy"
    /\ IF ccWritten[c] < Len(ccBody[c])
       THEN \E ok \in BOOLEAN :
              IF ok
              THEN /\ ccInodes' = [ccInodes EXCEPT ![ccF[c]] =
                                      WriteAt(@, ccWritten[c], ccBody[c][ccWritten[c] + 1])]
                   /\ ccWritten' = [ccWritten EXCEPT ![c] = @ + 1]
                   /\ UNCHANGED <<ccPc, ccErr>>
              ELSE /\ CcFail(c, "Write file content err")
                   /\ UNCHANGED <<ccInodes, ccWritten>>
       ELSE /\ ccPc' = [ccPc EXCEPT ![c] = "size"]
            /\ UNCHANGED <<ccInodes, ccWritten, ccErr>>
    /\ UNCHANGED <<ccBody, ccMd5, ccF, ccTmpPath, ccSavePath>>
    /\ UNCHANGED <<sgVars, putVars, svVars, gdVars>>

\* if written != r.objSize { return ... }
CcSize(c) ==
    /\ ccPc[c] = "size"
    /\ IF ccWritten[c] # Len(ccBody[c])
       THEN CcFail(c, "Loss of data during writing")
       ELSE ccPc' = [ccPc EXCEPT ![c] = "sync"] /\ UNCHANGED ccErr
    /\ UNCHANGED <<ccBody, ccMd5, ccF, ccWritten, ccTmpPath, ccSavePath, ccInodes>>
    /\ UNCHANGED <<sgVars, putVars, svVars, gdVars>>

\* f.Sync()
CcSync(c) ==
    /\ ccPc[c] = "sync"
    /\ \E ok \in BOOLEAN :
         IF ok THEN ccPc' = [ccPc EXCEPT ![c] = "checksum"] /\ UNCHANGED ccErr
         ELSE CcFail(c, "Sync object to file err")
    /\ UNCHANGED <<ccBody, ccMd5, ccF, ccWritten, ccTmpPath, ccSavePath, ccInodes>>
    /\ UNCHANGED <<sgVars, putVars, svVars, gdVars>>

\* if len(r.base64Md5) > 0 { ... Base64MD5(f) ... }: the digest of what the
\* file of f holds now is compared with the expected one.
CcChecksum(c) ==
    /\ ccPc[c] = "checksum"
    /\ IF ccMd5[c] # <<>> /\ Base64MD5(ccInodes[ccF[c]]) # ccMd5[c]
       THEN CcFail(c, "Base64Md5 not equal")
       ELSE ccPc' = [ccPc EXCEPT ![c] = "rename"] /\ UNCHANGED ccErr
    /\ UNCHANGED <<ccBody, ccMd5, ccF, ccWritten, ccTmpPath, ccSavePath, ccInodes>>
    /\ UNCHANGED <<sgVars, putVars, svVars, gdVars>>

\* os.Rename(tmpPath, r.savePath): the file the temp name refers to now gets
\* the destination name; the call fails when the temp name does not exist.
CcRename(c) ==
    /\ ccPc[c] = "rename"
    /\ \E ok \in BOOLEAN :
         IF ok /\ ccTmpPath # 0
         THEN /\ ccSavePath' = ccTmpPath /\ ccTmpPath' = 0
              /\ ccPc' = [ccPc EXCEPT ![c] = "cleanup"]
              /\ UNCHANGED ccErr
         ELSE /\ CcFail(c, "Rename file err")
              /\ UNCHANGED <<ccTmpPath, ccSavePath>>
    /\ UNCHANGED <<ccBody, ccMd5, ccF, ccWritten, ccInodes>>
    /\ UNCHANGED <<sgVars, putVars, svVars, gdVars>>

\* if saveErr != nil { os.Remove(tmpPath) }; return saveErr
CcCleanup(c) ==
    /\ ccPc[c] = "cleanup"
    /\ ccTmpPath' = IF ccErr[c] # "" THEN 0 ELSE ccTmpPath
    /\ ccPc' = [ccPc EXCEPT ![c] = "done"]
    /\ UNCHANGED <<ccBody, ccMd5, ccF, ccWritten, ccErr, ccSavePath, ccInodes>>
    /\ UNCHANGED <<sgVars, putVars, svVars, gdVars>>

TwoSavesNext ==
    \E c \in Calls :
       \/ CcOpen(c) \/ CcCopy(c) \/ CcSize(c) \/ CcSync(c)
       \/ CcChecksum(c) \/ CcRename(c) \/ CcCleanup(c)

(***************************************************************************)
(* ceph/obj.go: the Progress accessors.  stored is what the request's      *)
(* atomic.Value holds: <<>> while nothing was stored (Load returns nil),   *)
(* otherwise <<v>>.  The type assertion v.(float64) panics on nil.         *)
(***************************************************************************)

\* PutObjRequest.Progress: v := r.progress.Load(); return v.(float64)
Progress(stored) ==
    IF stored = <<>> THEN [panic |-> TRUE, value |-> 0]
    ELSE [panic |-> FALSE, value |-> stored[1]]

\* GetObjRequest.Progress: v := r.progress.Load(); return v.(float64)
GetObjRequestProgress(stored) ==
    IF stored = <<>> THEN [panic |-> TRUE, value |-> 0]
    ELSE [panic |-> FALSE, value |-> stored[1]]

(***************************************************************************)
(* Specifications.                                                         *)
(***************************************************************************)
SignInit == SgInit /\ PutIdle /\ SvIdle /\ GdIdle /\ CcIdle
SpecSign == SignInit /\ [][SignNext]_vars

PutStart == SgIdle /\ PutInit /\ SvIdle /\ GdIdle /\ CcIdle
SpecPut == PutStart /\ [][PutNext]_vars

\* Progress recording and URL generation do not read the clock.
TimedStart == PutStart /\ ~enableProgress /\ ~genUrl
SpecTimed == TimedStart /\ [][TimedNext]_vars

\* One call of Do, of an upload or of a download.
DoStart == SgIdle /\ GdIdle /\ ((PutInit /\ SvIdle) \/ (PutIdle /\ SvInit)) /\ CcIdle
SpecDo == DoStart /\ [][PutNext \/ SaveNext]_vars

UrlStart == SgIdle /\ PutIdle /\ SvIdle /\ GdInit /\ CcIdle
SpecUrl == UrlStart /\ [][UrlNext]_vars

SaveStart == SgIdle /\ PutIdle /\ SvInit /\ GdIdle /\ CcIdle
SpecSave == SaveStart /\ [][SaveNext]_vars

\* Two downloads to the same destination, from the moment both enter save.
TwoSavesStart == SgIdle /\ PutIdle /\ SvIdle /\ GdIdle /\ CcInit
SpecTwoSaves == TwoSavesStart /\ [][TwoSavesNext]_vars

\* Signature applied to a request on its own, or inside one call of the
\* upload.
SignPutStart == SignInit \/ PutStart
SpecSignPut == SignPutStart /\ [][SignNext \/ PutNext]_vars

\* GenDownloadUrl called on its own, or by an upload after a 200 response.
PutUrlStart == PutStart \/ UrlStart
SpecPutUrl == PutUrlStart /\ [][PutNext \/ UrlNext]_vars

\* The steps of each goroutine of the upload.
Coordinator ==
    \/ CoValidate \/ CoOpen \/ CoMd5 \/ CoHeader \/ CoDial
    \/ CoSelect \/ CoReadBody \/ CoStop \/ CoWait
    \/ CoCloseChans \/ CoCloseConn \/ CoCloseFile

Reader == RdStart \/ RdCheck \/ RdRead \/ RdSendErr \/ RdForward \/ RdSleep

Writer == WrStart \/ WrHeader \/ WrBody \/ WrCrlf \/ WrSendErr

\* The Go scheduler runs every goroutine that is able to take a step; the
\* peer is under no obligation.
FairStart == PutStart /\ ~enableProgress /\ ~genUrl
SpecFair ==
    /\ FairStart /\ [][PutNext]_vars
    /\ WF_vars(Coordinator) /\ WF_vars(Reader) /\ WF_vars(Writer)

(***************************************************************************)
(* Claims about PutObjRequest.Do (SpecPut).                                *)
(***************************************************************************)

\* Errors that come from a task over notifyErrC or from the timer, not from
\* the evaluation of a response.
TransportErrors ==
    {"Write http header err", "Send err", "Read file err", "unexpected EOF",
     "use of closed network connection", "Read response timeout"}

\* The result is the outcome of evaluating a response with this status:
\* success for 200, the response body as the error otherwise (a failure to
\* read that body or to build the requested URL also comes from evaluating it).
DerivedFromResponse(status) ==
    /\ poresp.err \notin TransportErrors
    /\ poresp.err = "" => status = 200 /\ poresp.ETag # ""
    /\ poresp.err = "response body" => status # 200

\* C1: if the peer sends a complete response with status >= 200 before the
\* writer has finished writing, Do returns the outcome derived from that
\* response and never a read/write error or a timeout in its place.
C1_EarlyResponseReturned ==
    (pcCo = "done" /\ earlyResp # 0) => DerivedFromResponse(earlyResp)

\* C2: once the writer has written header, body and trailing CRLF and the
\* peer stays silent with the connection open, Do has left its loop with the
\* timeout error as soon as more than FinalWait seconds have passed since the
\* write completed.
C2_TimeoutAfterFinalWait ==
    (/\ wroteAt >= 0
     /\ peerSent = <<>>
     /\ ~peerClosed
     /\ now - wroteAt > FinalWait)
    => (pcCo # "select" /\ poresp.err = "Read response timeout")

\* C3: when Do has returned after the connection was opened, both tasks have
\* terminated; the channels are closed only after both tasks have exited; no
\* task touches the socket or a channel after Do returned.
C3_TasksExitedBeforeReturn ==
    /\ pcCo = "done" => TaskExited(pcRd) /\ TaskExited(pcWr)
    /\ chansClosed => TaskExited(pcRd) /\ TaskExited(pcWr)
    /\ lateOps = {}

\* C4: on every exit path after the dial, the stop flag is raised, then both
\* tasks are joined, and only then is the connection closed; the connection
\* is closed when Do returns.
C4_TeardownOrder ==
    /\ connClosed => stopped > 0 /\ TaskExited(pcRd) /\ TaskExited(pcWr)
    /\ (pcCo = "done" /\ pcRd # "none") => connClosed

(***************************************************************************)
(* Claims about GetObjRequest.save (SpecSave).                             *)
(***************************************************************************)

\* C5: the final path changes only by the rename of the temp file, and only
\* when the whole body was copied without error, the bytes written equal the
\* expected size, fsync succeeded and a supplied checksum matches; so a
\* stream failure never leaves a partial file at the final path.
C5_DestOnlyByRename ==
    [][dstFile' # dstFile =>
         /\ pcSv = "rename"
         /\ dstFile' = tmpFile
         /\ tmpFile = File(svBody)
         /\ svCopied /\ ~svSrcFails
         /\ svWritten = objSize /\ Len(svBody) = objSize
         /\ svSynced
         /\ Len(base64Md5) > 0 => Base64MD5(svBody) = base64Md5]_vars

\* A download with a supplied checksum has replaced an existing destination.
C5_Witness ==
    /\ pcSv = "done" /\ saveErr = ""
    /\ dstBefore.exists /\ dstFile # dstBefore
    /\ Len(base64Md5) > 0 /\ objSize = MaxSize

SignedNames == {"date", "content-md5", "content-type"}

KeysOf(r, name) == {k \in DOMAIN r.Header : ToLower(k) = name}

\* The value of a signed header as a caller states it: that of the key
\* carrying the name, the empty string when there is none.
StatedValue(r, name) ==
    IF KeysOf(r, name) = {} THEN ""
    ELSE Join(r.Header[CHOOSE k \in KeysOf(r, name) : TRUE], " ")

RECURSIVE ValuesOf(_, _)
ValuesOf(raw, name) ==
    IF raw = <<>> THEN <<>>
    ELSE (IF Head(raw).name = name /\ Head(raw).eq THEN <<Head(raw).value>> ELSE <<>>)
         \o ValuesOf(Tail(raw), name)

RECURSIVE StatedEntries(_, _)
StatedEntries(raw, names) ==
    IF names = <<>> THEN <<>>
    ELSE LET k == Head(names)
             vals == ValuesOf(raw, k)
         IN (IF vals = <<>> THEN <<k>> ELSE NameValues(k, vals))
            \o StatedEntries(raw, Tail(names))

\* The allow-listed names of a raw query in ascending order.
RetainedNames(raw) ==
    LET S == {raw[i].name : i \in 1..Len(raw)} \cap QsaOfInterest
    IN CHOOSE seq \in Perms(S) :
          \A i \in 1..(Len(seq) - 1) : StringLess(seq[i], seq[i + 1])

\* The retained entries as stated: a name without value bare, a name with
\* values once per value as name=value in the original order.
RetainedEntries(raw) == StatedEntries(raw, RetainedNames(raw))

StatedQuery(r) ==
    IF RetainedEntries(r.RawQuery) = <<>> THEN ""
    ELSE "?" \o Join(RetainedEntries(r.RawQuery), "&")

StatedCanonical(r) ==
    r.Method \o "\n" \o StatedValue(r, "content-md5") \o "\n"
    \o StatedValue(r, "content-type") \o "\n" \o StatedValue(r, "date") \o "\n"
    \o r.Path \o StatedQuery(r)

\* C7: the signed string is METHOD, newline, the Content-MD5, Content-Type
\* and Date values each followed by a newline, the path and, if an
\* allow-listed parameter is present, '?' and the retained entries joined by
\* '&'; the result is base64(HMAC-SHA1(key, string)).
C7_CanonicalString ==
    sgPc = "done" =>
       /\ sgCanonical = StatedCanonical(sgReq)
       /\ sgSig = Base64Encode(Hashmac(StatedCanonical(sgReq), sgKey))

\* C8: the query part of the signed string consists of the allow-listed
\* names only, sorted, a name without value bare and a name with values once
\* per value as name=value in the original order.
C8_QueryCanonicalization ==
    sgPc = "done" =>
       \E hdrOrder \in Perms(DOMAIN sgReq.Header) :
          sgCanonical = CanonicalHeaders(sgReq, hdrOrder) \o sgReq.Path
                        \o StatedQuery(sgReq)

InsertAt(seq, i, x) == SubSeq(seq, 1, i) \o <<x>> \o SubSeq(seq, i + 1, Len(seq))

\* The keys under which a signed header the request omits could be set.
OmittedKeys(r) ==
    {k \in HeaderKeys : ToLower(k) \in SignedNames /\ KeysOf(r, ToLower(k)) = {}}

WithEmpty(r, k) == [r EXCEPT !.Header = (k :> <<"">>) @@ r.Header]

\* C9: a request that omits one of the three signed headers yields the same
\* canonical string and signature as the otherwise identical request that
\* sets that header to the empty string (wherever the map enumerates it).
C9_OmittedEqualsEmpty ==
    sgPc = "done" =>
       \A k \in OmittedKeys(sgReq) :
       \A hdrOrder \in Perms(DOMAIN sgReq.Header) :
       \A qryOrder \in Perms(DOMAIN Query(sgReq)) :
          CanonicalString(sgReq, hdrOrder, qryOrder) = sgCanonical =>
             \A i \in 0..Len(hdrOrder) :
                LET withEmpty == WithEmpty(sgReq, k)
                    order == InsertAt(hdrOrder, i, k)
                IN /\ CanonicalString(withEmpty, order, qryOrder) = sgCanonical
                   /\ Signature(sgKey, withEmpty, order, qryOrder) = sgSig

\* A request without Content-MD5 but with another signed header was signed.
C9_Witness ==
    /\ sgPc = "done"
    /\ KeysOf(sgReq, "content-md5") = {}
    /\ "Content-Type" \in DOMAIN sgReq.Header
    /\ sgReq.RawQuery # <<>>

RECURSIVE StripUnlisted(_)
StripUnlisted(raw) ==
    IF raw = <<>> THEN <<>>
    ELSE (IF Head(raw).name \in QsaOfInterest THEN <<Head(raw)>> ELSE <<>>)
         \o StripUnlisted(Tail(raw))

\* C10: the signature is the same for every enumeration order of the header
\* and query maps, and the same with the parameters that are not on the
\* allow-list removed.
C10_Deterministic ==
    sgPc = "done" =>
       /\ \A hdrOrder \in Perms(DOMAIN sgReq.Header) :
          \A qryOrder \in Perms(DOMAIN Query(sgReq)) :
             Signature(sgKey, sgReq, hdrOrder, qryOrder) = sgSig
       /\ LET stripped == [sgReq EXCEPT !.RawQuery = StripUnlisted(sgReq.RawQuery)]
          IN \A hdrOrder \in Perms(DOMAIN stripped.Header) :
             \A qryOrder \in Perms(DOMAIN Query(stripped)) :
                Signature(sgKey, stripped, hdrOrder, qryOrder) = sgSig

\* A header value not used by any request of the model.
OtherValue == <<"x">>

\* The requests that differ from r in the value of one signed header.
HeaderChanged(r) ==
    {[r EXCEPT !.Header = (k :> OtherValue) @@ r.Header] :
        k \in {j \in DOMAIN r.Header : ToLower(j) \in SignedNames}}

ListedParams == {p \in QueryParams : p.name \in QsaOfInterest}

RemoveAt(seq, i) == SubSeq(seq, 1, i - 1) \o SubSeq(seq, i + 1, Len(seq))

\* The requests that differ from r by one allow-listed query parameter:
\* one added, one removed, or the value of one changed.
QueryChanged(r) ==
    LET raw == r.RawQuery
        listed == {i \in 1..Len(raw) : raw[i].name \in QsaOfInterest}
    IN {[r EXCEPT !.RawQuery = InsertAt(raw, i, p)] :
            i \in 0..Len(raw), p \in ListedParams}
       \cup {[r EXCEPT !.RawQuery = RemoveAt(raw, i)] : i \in listed}
       \cup {[r EXCEPT !.RawQuery = [raw EXCEPT ![i].value = "9"]] :
                i \in {j \in listed : raw[j].eq}}

\* C11: changing the value of Date, Content-MD5 or Content-Type, or adding,
\* removing or changing the value of an allow-listed query parameter, all
\* else equal, changes the canonical string that is signed and the signature.
C11_SensitiveToSignedInputs ==
    sgPc = "done" =>
       \A r2 \in HeaderChanged(sgReq) \cup QueryChanged(sgReq) :
       \A hdrOrder \in Perms(DOMAIN r2.Header) :
       \A qryOrder \in Perms(DOMAIN Query(r2)) :
          /\ CanonicalString(r2, hdrOrder, qryOrder) # sgCanonical
          /\ Signature(sgKey, r2, hdrOrder, qryOrder) # sgSig

\* The value a signed name takes when the key k carries it ("" for no key).
ValueUnder(r, k) == IF k = "" THEN "" ELSE Join(r.Header[k], " ")

KeyChoices(r, name) == IF KeysOf(r, name) = {} THEN {""} ELSE KeysOf(r, name)

\* The request without the headers that are not signed.
SignedOnly(r) ==
    [r EXCEPT !.Header =
        [k \in {j \in DOMAIN r.Header : ToLower(j) \in SignedNames} |-> r.Header[k]]]

\* C12: whatever header keys the request carries, the signed string has
\* exactly three header lines after the method line, the values found under
\* content-md5, content-type and date in that order, and the headers that
\* are not signed have no influence on it.
C12_ThreeHeaderLines ==
    sgPc = "query" =>
       /\ \E km \in KeyChoices(sgReq, "content-md5") :
          \E kt \in KeyChoices(sgReq, "content-type") :
          \E kd \in KeyChoices(sgReq, "date") :
             sgCanonical = sgReq.Method \o "\n" \o ValueUnder(sgReq, km) \o "\n"
                           \o ValueUnder(sgReq, kt) \o "\n"
                           \o ValueUnder(sgReq, kd) \o "\n"
       /\ \E hdrOrder \in Perms(DOMAIN SignedOnly(sgReq).Header) :
             CanonicalHeaders(SignedOnly(sgReq), hdrOrder) = sgCanonical

(***************************************************************************)
(* Further claims about PutObjRequest.Do and GetObjRequest.Do.             *)
(***************************************************************************)

\* C13: with progress enabled the stored progress values never decrease and
\* stay within [0,100], and 100 is stored only once the writer has written
\* the whole body and the trailing CRLF; a writer that fails never shows 100.
C13_ProgressMonotone ==
    /\ [](enableProgress =>
            /\ progress[1] \in 0..100
            /\ progress[1] = 100 => (pcWr = "done" /\ wroteAt >= 0))
    /\ [][enableProgress => progress'[1] >= progress[1]]_vars

\* C14: a result with an error has empty ETag, Base64Md5 and DownloadUrl, and
\* these three are set only by a status-200 response with no error in the
\* same result.
C14_ResultExclusive ==
    /\ poresp.err # "" =>
          poresp.ETag = "" /\ poresp.Base64Md5 = "" /\ poresp.DownloadUrl = ""
    /\ (poresp.ETag # "" \/ poresp.Base64Md5 # "" \/ poresp.DownloadUrl # "") =>
          resp = 200 /\ poresp.err = ""

\* Do has returned a failure of the URL generation after a status 200.
C14_Witness ==
    /\ pcCo = "done" /\ resp = 200 /\ genUrl
    /\ poresp.err = "Generate download url failed"

\* The parameters Do must refuse.
Invalid(p) ==
    p.nil \/ ~ResolveTCPAddr(p.Host) \/ p.AccessKey = "" \/ p.SecretKey = ""

ValidationErrors ==
    {"Nil RequestParam", "Validate RequestParam err, Invalid host",
     "Validate RequestParam err, Empty AccessKey",
     "Validate RequestParam err, Empty SecretKey"}

\* C15: with nil or invalid parameters Do returns a validation failure and
\* has no other effect: an upload opens no file and dials no connection, a
\* download issues no HTTP request and touches neither the temp file nor the
\* destination.
C15_ValidationFirst ==
    /\ []((pcCo = "done" /\ Invalid(param)) => poresp.err \in ValidationErrors)
    /\ []((pcSv \in {"returned", "done"} /\ Invalid(svParam)) =>
             goErr \in ValidationErrors)
    /\ [][(pcCo # "idle" /\ Invalid(param)) =>
             /\ fileOpened' = FALSE /\ dials' = 0 /\ wire' = <<>>
             /\ pcRd' = "none" /\ pcWr' = "none"]_vars
    /\ [][(pcSv # "idle" /\ Invalid(svParam)) =>
             /\ svHttp' = <<>>
             /\ tmpFile' = tmpFile /\ dstFile' = dstFile]_vars

\* A download was refused for its unresolvable host while a stale temp file
\* lay on the disk.
C15_Witness ==
    /\ pcSv = "returned"
    /\ goErr = "Validate RequestParam err, Invalid host"
    /\ tmpFile.exists

\* C16: GenDownloadUrl returns http://<host>/<bucket>/<object> with bucket
\* and object percent-escaped when unsigned, and that URL followed by
\* ?Signature=<query-escaped signature>&Expires=<unix seconds of now+expiry>
\* &AWSAccessKeyId=<access key>, in this order, when signed.
C16_DownloadUrl ==
    (gdPc = "done" /\ gdErr = "") =>
       LET base == <<"http://", gdParam.Host, "/", PathEscape(gdBucket), "/",
                     PathEscape(gdObj)>>
       IN /\ ~gdSigned => gdUrl = base
          /\ gdSigned =>
                /\ Len(gdUrl) = 12
                /\ SubSeq(gdUrl, 1, 6) = base
                /\ gdUrl[7] = "?Signature="
                /\ gdUrl[8] = QueryEscape(Signature(gdParam.SecretKey,
                                  SigningRequest(gdBucket, gdObj,
                                                 FormatInt(gdNow + gdExpired)),
                                  <<"Expires">>, <<>>))
                /\ gdUrl[9] = "&Expires="
                /\ gdUrl[10] = FormatInt(gdNow + gdExpired)
                /\ gdUrl[11] = "&AWSAccessKeyId="
                /\ gdUrl[12] = gdParam.AccessKey

\* A signed URL was returned for names that need escaping.
C16_Witness ==
    /\ gdPc = "done" /\ gdErr = "" /\ gdSigned
    /\ gdBucket = "my bucket" /\ gdObj = "a/b" /\ gdExpired = 60

\* C17: for a zero-byte file the header block announces Content-Length 0,
\* the writer writes the header block and then the trailing CRLF with no
\* chunk between, nothing is divided by the file size, and with progress
\* enabled a successful writer leaves progress at 100.
C17_ZeroByteFile ==
    fileSize = 0 =>
       LET hdr == header
       IN /\ hdr # <<>> => Len(hdr) = 1 /\ hdr[1].kind = "header" /\ hdr[1].n = 0
          /\ wire # <<>> => hdr # <<>>
          /\ wire \in {<<>>, hdr, hdr \o <<[kind |-> "crlf", n |-> 2]>>}
          /\ divisors = {}
          /\ (enableProgress /\ pcWr = "done" /\ wroteAt >= 0) => progress = <<100>>

\* The writer has finished the upload of an empty file with progress enabled.
C17_Witness ==
    /\ fileSize = 0 /\ enableProgress
    /\ pcWr = "done" /\ wroteAt >= 0
    /\ Len(wire) = 2

ReaderErrors == SelectSeq(errSent, LAMBDA e : e.by = "reader")

\* C18: a timed-out read of the reader task is not sent on the error channel
\* and does not end the task (it goes on to sleep and retry); any other read
\* or parse error is sent on the error channel exactly once and the task
\* ends with the send.
C18_ReaderErrors ==
    /\ [](/\ \A i \in 1..Len(errSent) :
               errSent[i].by = "reader" => errSent[i].err # "i/o timeout"
          /\ Len(ReaderErrors) <= 1
          /\ pcRd # "done" => ReaderErrors = <<>>)
    /\ [][(pcRd = "read" /\ rdErr' = "i/o timeout") =>
             pcRd' = "sleep" /\ errSent' = errSent]_vars
    /\ [][(pcRd = "read" /\ rdErr' \notin {"", "i/o timeout"}) =>
             pcRd' = "senderr"]_vars
    /\ [][(pcRd = "senderr" /\ pcRd' # pcRd) =>
             /\ pcRd' = "done"
             /\ errSent' = Append(errSent, [by |-> "reader", err |-> rdErr])]_vars

\* The reader timed out at least once, later met the end of the stream and
\* reported it.
C18_Witness ==
    /\ pcRd = "done"
    /\ ReaderErrors = <<[by |-> "reader", err |-> "unexpected EOF"]>>
    /\ peerSent = <<>>

\* The responses the reader has parsed so far.
Parsed == SubSeq(peerSent, 1, Len(peerSent) - Len(inbound))

\* The results Do derives from a response.
ResponseResult ==
    \/ poresp.ETag # ""
    \/ poresp.err \in {"Read response body err", "response body",
                       "garbled response body", "Generate download url failed"}

C20_TerminalResponse ==
    /\ pcCo = "select" => \A i \in 1..Len(coReceived) : coReceived[i] < 200
    /\ (pcCo = "done" /\ coReceived # <<>> /\ coReceived[Len(coReceived)] >= 200) =>
          IF poresp.err = "Read response body err" THEN poresp.ETag = ""
          ELSE IF coReceived[Len(coReceived)] = 200
               THEN poresp.err = "" /\ poresp.ETag = "etag" /\ poresp.Base64Md5 = "md5"
               ELSE poresp.err = "response body"

(***************************************************************************)
(* Claims about the tasks of the upload, its wire format and its teardown. *)
(***************************************************************************)

\* C21: once the writer task has written the whole body and the trailing
\* CRLF it signals write-done, and the coordinator on receiving the signal
\* re-arms its timer to the five-second final wait: a writer that finished
\* successfully is either still handing over the signal or the timer runs
\* with the final wait.
C21_WriteDoneSignalled ==
    (pcWr = "done" /\ wroteAt >= 0) =>
        ("writer" \in WriteDoneSenders \/ timerDur = FinalWaitDur)

\* C22: once the coordinator has raised the stop flag the reader task
\* eventually observes it and exits, whatever the reader was doing at that
\* moment.
C22_ReaderObservesStop == (stopped > 0) ~> (pcRd = "done")

\* A step in which a task executes a send on a channel that teardown has
\* already closed.
ReaderLateSend == chansClosed /\ pcRd \in {"senderr", "forward"} /\ pcRd' # pcRd

WriterLateSend == chansClosed /\ pcWr = "senderr" /\ pcWr' # pcWr

\* C23: a send by the reader or the writer task on a channel already closed
\* by teardown never crashes the process: the panic is caught inside the
\* task, the task still marks itself done (its pc is "done" and the
\* WaitGroup counter is decremented) and the result the coordinator chose
\* stays as it is.
C23_LateSendRecovered ==
    /\ [](~crashed)
    /\ [][ReaderLateSend =>
             pcRd' = "done" /\ wg' = wg - 1 /\ poresp' = poresp /\ ~crashed']_vars
    /\ [][WriterLateSend =>
             pcWr' = "done" /\ wg' = wg - 1 /\ poresp' = poresp /\ ~crashed']_vars
    /\ [][pcCo = "done" => poresp' = poresp]_vars

\* The writer has sent on the closed notifyErrC after Do returned a result.
C23_Witness ==
    /\ "writer: send notifyErrC" \in lateOps
    /\ chansClosed /\ pcWr = "done" /\ wg = 0
    /\ pcCo = "done" /\ poresp.err # ""

\* The body bytes in a wire sequence.
RECURSIVE BodyBytes(_)
BodyBytes(w) ==
    IF w = <<>> THEN 0
    ELSE (IF Head(w).kind = "chunk" THEN Head(w).n ELSE 0) + BodyBytes(Tail(w))

\* C24: the writer emits the header block first, then the file content from
\* offset 0 in chunks of at most 8192 bytes in file order, then the trailing
\* CRLF and nothing after it; when the writer has completed without error the
\* body bytes written equal the Content-Length announced in the header block.
C24_WireOrder ==
    /\ wire # <<>> => header # <<>> /\ wire[1] = header[1]
    /\ \A i \in 2..Len(wire) :
          /\ wire[i].kind \in {"chunk", "crlf"}
          /\ wire[i].kind = "crlf" => i = Len(wire)
          /\ wire[i].kind = "chunk" =>
                /\ wire[i].n \in 1..ChunkSize
                /\ wire[i].off = BodyBytes(SubSeq(wire, 1, i - 1))
    /\ (pcWr = "done" /\ wroteAt >= 0) =>
          /\ Len(wire) >= 2 /\ wire[Len(wire)].kind = "crlf"
          /\ BodyBytes(wire) = wire[1].n

\* The writer has completed a file of one full and one partial chunk.
C24_Witness ==
    /\ pcWr = "done" /\ wroteAt >= 0
    /\ fileSize = ChunkSize + 1
    /\ Len(wire) = 4 /\ wire[3].n = 1 /\ wire[3].off = ChunkSize

\* The request whose Date, Content-Type and Content-MD5 are the values of
\* the header block h.
RequestOf(h) ==
    [Method |-> "PUT",
     Header |-> ("Date" :> <<h.Date>>) @@ ("Content-Type" :> <<h.ContentType>>)
                @@ ("Content-Md5" :> <<h.ContentMD5>>),
     Path |-> "/bucket/obj", RawQuery |-> <<>>]

\* C25: Signature never modifies the request it is given; in an upload the
\* Date, Content-Type and Content-MD5 values on the wire are exactly the
\* values Signature read (the Authorization line is the signature of a
\* request carrying those three values, so it was computed after they were
\* set), and the header block is not changed once it is built.
C25_SignThenFrame ==
    /\ [][sgReq' = sgReq]_vars
    /\ [](\A i \in 1..Len(wire) :
            wire[i].kind = "header" =>
               wire[i].Authorization =
                  <<"AWS", param.AccessKey,
                    Signature(param.SecretKey, RequestOf(wire[i]),
                              <<"Date", "Content-Type", "Content-Md5">>, <<>>)>>)
    /\ [][header # <<>> => header' = header]_vars

\* The header block of an upload is on the wire.
C25_Witness ==
    /\ Len(wire) >= 1 /\ wire[1].kind = "header"
    /\ wire[1].Date = GMTime /\ wire[1].ContentMD5 = FileMd5
    /\ param.SecretKey = "sk"

\* Errors the coordinator has taken from notifyErrC: those delivered to the
\* channel and no longer in it.
ErrorsReceived == Len(errSent) - Len(notifyErrC)

\* C26: an error the coordinator receives from either task ends the transfer
\* with that error as the error of the result (and nothing else in the
\* result); one call of Do dials at most one connection and writes the
\* header block at most once.
C26_NoRetry ==
    /\ dials <= 1
    /\ Len(SelectSeq(wire, LAMBDA x : x.kind = "header")) <= 1
    /\ ErrorsReceived <= 1
    /\ ErrorsReceived = 1 =>
          /\ pcCo \in {"stop", "wait", "closeChans", "closeConn", "closeFile", "done"}
          /\ poresp = [NoResult EXCEPT !.err = errSent[1].err]

\* Do has returned the error of a task after the header block was written.
C26_Witness ==
    /\ pcCo = "done" /\ ErrorsReceived = 1
    /\ errSent[1].by = "reader" /\ poresp.err = "unexpected EOF"
    /\ dials = 1 /\ Len(wire) >= 1

\* C27: during an upload the read deadline of the connection is set only by
\* the reader task and the write deadline only by the writer task; the
\* coordinator sets neither and no task sets the other task's deadline.
C27_DeadlineOwners ==
    \A d \in deadlines :
       /\ d.kind = "read" => d.by = "reader"
       /\ d.kind = "write" => d.by = "writer"

\* Both deadlines have been set.
C27_Witness ==
    /\ [kind |-> "read", by |-> "reader"] \in deadlines
    /\ [kind |-> "write", by |-> "writer"] \in deadlines
    /\ pcCo = "done"

(***************************************************************************)
(* Further claims about the download and about GenDownloadUrl.             *)
(***************************************************************************)

\* C28: in a download with progress enabled, each successful size poll of
\* the polling task stores a progress value derived from the temp file's
\* current size relative to the expected object size, a value between 0 and
\* 100.
C28_PollUpdates ==
    /\ [][(svPolls' > svPolls /\ objSize > 0) =>
             svProgress' = <<(Len(tmpFile.data) * 100) \div objSize>>]_vars
    /\ [](svEnableProgress => svProgress[1] \in 0..100)

\* C29: a download first performs the object-metadata request; if that
\* request fails the download fails with its error, no GET is issued and
\* neither the temp file nor the destination is touched; a GET is issued only
\* after the metadata request, and if it answers with a status other than
\* 200 the download fails with the response body as message and no temp file
\* is created.
C29_MetadataFirst ==
    /\ [](svHttp # <<>> => svHttp[1] = "HEAD")
    /\ [][(pcSv = "info" /\ pcSv' # "get") =>
             pcSv' = "returned" /\ goErr' = "Get object info err"]_vars
    /\ [](goErr = "Get object info err" => pcSv = "returned" /\ svHttp = <<"HEAD">>)
    /\ [](goErr = "response body" => pcSv = "returned" /\ svHttp = <<"HEAD", "GET">>)
    /\ [][(pcSv \in {"validate", "info", "get", "returned"}) =>
             tmpFile' = tmpFile /\ dstFile' = dstFile]_vars

\* The GET was answered with a status other than 200; a stale temp file and
\* the destination are as they were.
C29_Witness ==
    /\ pcSv = "returned" /\ goErr = "response body"
    /\ svHttp = <<"HEAD", "GET">>
    /\ tmpFile = File(<<"s", "t", "a", "l", "e">>) /\ dstFile = dstBefore

\* C30: GenDownloadUrl checks the object before it builds any URL and
\* returns an empty URL with the error 'Bad object' when the metadata request
\* fails; when URL generation fails after a status-200 upload response, the
\* upload result is a failure with empty ETag, checksum and URL.
C30_BadObject ==
    /\ gdUrl # <<>> => gdHead = "ok" /\ gdErr = ""
    /\ gdHead = "failed" => gdPc = "done" /\ gdUrl = <<>> /\ gdErr = "Bad object"
    /\ gdErr # "" => gdErr = "Bad object"
    /\ poresp.err = "Generate download url failed" =>
          /\ resp = 200 /\ genUrl
          /\ poresp.ETag = "" /\ poresp.Base64Md5 = "" /\ poresp.DownloadUrl = ""

\* The metadata request for a valid parameter bundle has failed.
C30_Witness ==
    /\ gdPc = "done" /\ gdHead = "failed" /\ gdErr = "Bad object"
    /\ ~gdParam.nil /\ Validate(gdParam) = ""

(***************************************************************************)
(* Claims about the error channel, signed URLs, results and progress.      *)
(***************************************************************************)

\* Errors a task has delivered to notifyErrC.
SentBy(task) == SelectSeq(errSent, LAMBDA e : e.by = task)

\* C31: in one upload each task sends at most one value on the error channel
\* and exits right after the send, so at most two errors are ever sent and a
\* task about to send never finds the capacity-2 channel full, whether or not
\* the coordinator is still receiving.
C31_ErrorSendsNeverBlock ==
    /\ [](Len(SentBy("reader")) <= 1 /\ Len(SentBy("writer")) <= 1)
    /\ [](Len(errSent) <= ErrCap)
    /\ []((pcRd = "senderr" \/ pcWr = "senderr") =>
             (chansClosed \/ Len(notifyErrC) < ErrCap))
    /\ [][(pcRd = "senderr" /\ pcRd' # pcRd) => pcRd' = "done"]_vars
    /\ [][(pcWr = "senderr" /\ pcWr' # pcWr) => pcWr' = "done"]_vars

\* Both tasks have sent their error and the coordinator has received neither:
\* it had left its loop on a terminal response.
C31_Witness ==
    /\ Len(notifyErrC) = 2 /\ Len(errSent) = 2
    /\ pcRd = "done" /\ pcWr = "done"
    /\ coReceived # <<>> /\ pcCo \in {"stop", "wait", "closeChans"}

\* The Signature parameter of a signed download URL.
SignatureOf(u) == u[8]

\* C32: the Signature of a signed download URL is bound to its expiry: for the
\* same key, bucket and object, a URL with a different Expires value carries
\* a different Signature.
C32_SignatureBoundToExpiry ==
    (gdPc = "done" /\ gdSigned /\ gdErr = "") =>
        \A e \in {0, 60, 3600}, n \in {1000, 2000} :
            FormatInt(n + e) # FormatInt(gdNow + gdExpired) =>
                SignatureOf(DownloadUrl(gdBucket, gdObj, gdParam, TRUE, e, n))
                    # SignatureOf(gdUrl)

\* Do has returned a result without error that carries an ETag.
ReportsSuccess == pcCo = "done" /\ poresp.err = "" /\ poresp.ETag # ""

\* The writer has put the header block, every chunk and the CRLF on the wire.
WroteEverything ==
    /\ pcWr = "done" /\ written = numChunks
    /\ wire # <<>> /\ wire[Len(wire)].kind = "crlf"

\* C33: Do reports success, a nil error with an ETag, only if the writer
\* wrote the entire body and the terminating CRLF without error; a write
\* error of the same transfer is never masked by a success.
C33_SuccessMeansWritten ==
    ReportsSuccess => (WroteEverything /\ wrErr = "")

\* A call of Progress returned a number between 0 and 100.
InRange(result) == ~result.panic /\ result.value \in 0..100

\* C34: Progress() of an upload or a download request can be called in any
\* state of the request (fresh, progress never enabled or disabled, during or
\* after the transfer) and always returns a number between 0 and 100 without
\* crashing.
C34_ProgressAlwaysCallable ==
    /\ pcCo # "idle" => InRange(Progress(progress))
    /\ pcSv # "idle" => InRange(GetObjRequestProgress(svProgress))

\* The download succeeded: every step up to the rename was passed.
SaveSucceeded == pcSv \in {"cleanup", "done"} /\ saveErr = ""

\* C35: in a download with progress enabled the progress value becomes 100
\* only if the download succeeded (the temp file was renamed to the
\* destination); a failed download never ends with 100, and when save
\* returns the poller has already stored the final value.
C35_HundredMeansSaved ==
    svEnableProgress =>
        /\ svProgress = <<100>> => SaveSucceeded
        /\ pcSv = "done" => pcPoll = "done"

\* C36: the download's progress polling task never crashes the process: a
\* poll whose size read failed is skipped and the task keeps running until
\* it is stopped.
C36_PollerNeverPanics ==
    svEnableProgress => pcPoll \in {"none", "select", "done"}

\* C38: the writer task never consults the stop flag: once started it stops
\* only after the whole body and the trailing CRLF were written or after an
\* I/O error; Do does not return before the writer has reached one of these
\* two ends, and the writer always reaches one of them.
C38_ReturnWaitsForWriter ==
    /\ [][(pcWr # "done" /\ pcWr' = "done") =>
             (WroteEverything' \/ wrErr' # "")]_vars
    /\ []((pcCo = "done" /\ pcWr # "none") => pcWr = "done")
    /\ (pcWr = "start") ~> (pcWr = "done")

(***************************************************************************)
(* Claims about two downloads to one destination (SpecTwoSaves).           *)
(***************************************************************************)

\* What the destination name holds.
Destination == ccInodes[ccSavePath]

\* C37: two downloads running concurrently towards the same destination do
\* not interfere: the destination never holds a truncated, partial or mixed
\* file, and a download that reports success has placed exactly its own
\* complete body there.
C37_NoInterference ==
    /\ [](ccSavePath # 0 => \E c \in Calls : Destination = ccBody[c])
    /\ [][\A c \in Calls :
            (ccPc[c] = "rename" /\ ccPc'[c] = "cleanup" /\ ccErr'[c] = "") =>
                Destination' = ccBody[c]]_vars

====
